---- MODULE Spec2Model ----
(***************************************************************************)
(* The Gold Tier AI orchestrator (phase3_gold/ai_orchestrator.py) as a     *)
(* state machine: AuditLogger, MessageClassifier, HumanInTheLoop,          *)
(* ScriptRunner, RalphWiggumLoop and AIOrchestrator.                       *)
(*                                                                         *)
(* Python strings on which the code computes (substring tests, lower(),    *)
(* concatenation) are sequences of one-character strings; strings the code *)
(* only passes around (error texts, event names) are TLA+ strings.  The    *)
(* action labels of HumanInTheLoop are TLA+ strings too, and Chars gives   *)
(* their characters where the code searches them.                          *)
(***************************************************************************)
EXTENDS Integers, Sequences, FiniteSets, TLC

(***************************************************************************)
(* Bounds of the model.                                                    *)
(***************************************************************************)
\* Longest inbox (number of *.json files) explored.
MaxInbox == 2

\* Under run(), a handler may succeed only within its first MaxFlaky
\* invocations for a task; a handler that failed that often keeps failing.
MaxFlaky == 4

(***************************************************************************)
(* Module constants of ai_orchestrator.py.                                 *)
(***************************************************************************)
MAX_RETRIES == 3

RETRY_DELAY == 2

RALPH_WIGGUM_MAX_ITERATIONS == 10

WEEKLY_AUDIT_INTERVAL == 7 * 24 * 60 * 60

\* run_script's default timeout (seconds).
DEFAULT_TIMEOUT == 300

PERSONAL_DOMAINS ==
    << <<"g","m","a","i","l">>,
       <<"w","h","a","t","s","a","p","p">>,
       <<"p","e","r","s","o","n","a","l">> >>

BUSINESS_DOMAINS ==
    << <<"l","i","n","k","e","d","i","n">>,
       <<"f","a","c","e","b","o","o","k">>,
       <<"i","n","s","t","a","g","r","a","m">>,
       <<"t","w","i","t","t","e","r">>,
       <<"x">>,
       <<"b","u","s","i","n","e","s","s">> >>

personal_keywords ==
    << <<"f","a","m","i","l","y">>,
       <<"f","r","i","e","n","d">>,
       <<"p","e","r","s","o","n","a","l">>,
       <<"h","o","m","e">>,
       <<"v","a","c","a","t","i","o","n">>,
       <<"b","i","r","t","h","d","a","y">>,
       <<"p","a","r","t","y">>,
       <<"d","i","n","n","e","r">>,
       <<"c","a","s","u","a","l">> >>

business_keywords ==
    << <<"w","o","r","k">>,
       <<"m","e","e","t","i","n","g">>,
       <<"p","r","o","j","e","c","t">>,
       <<"c","l","i","e","n","t">>,
       <<"b","u","s","i","n","e","s","s">>,
       <<"p","r","o","p","o","s","a","l">>,
       <<"c","o","n","t","r","a","c","t">>,
       <<"d","e","a","d","l","i","n","e">>,
       <<"p","r","o","f","e","s","s","i","o","n","a","l">> >>

SENSITIVE_ACTIONS ==
    << <<"l","o","g","i","n">>,
       <<"b","a","t","c","h","_","p","o","s","t">>,
       <<"f","i","n","a","n","c","i","a","l">>,
       <<"a","c","c","o","u","n","t","_","c","h","a","n","g","e">>,
       <<"d","e","l","e","t","e">>,
       <<"p","o","s","t">>,
       <<"l","i","n","k","e","d","i","n">>,
       <<"f","a","c","e","b","o","o","k">>,
       <<"i","n","s","t","a","g","r","a","m">>,
       <<"t","w","i","t","t","e","r">>,
       <<"s","o","c","i","a","l">> >>

(***************************************************************************)
(* Python string primitives.                                               *)
(***************************************************************************)
\* `sub in s`: sub occurs in s as a contiguous substring.
Contains(s, sub) ==
    \E i \in 0..(Len(s) - Len(sub)) :
        \A j \in 1..Len(sub) : s[i + j] = sub[j]

\* One character of str.lower() (the upper-case letters the model uses).
LowerChar(c) ==
    CASE c = "A" -> "a" [] c = "B" -> "b" [] c = "C" -> "c" [] c = "D" -> "d"
      [] c = "F" -> "f" [] c = "G" -> "g" [] c = "H" -> "h" [] c = "I" -> "i"
      [] c = "L" -> "l" [] c = "M" -> "m" [] c = "N" -> "n" [] c = "O" -> "o"
      [] c = "P" -> "p" [] c = "S" -> "s" [] c = "T" -> "t" [] c = "W" -> "w"
      [] c = "X" -> "x"
      [] OTHER -> c

\* str.lower()
Lower(s) == [i \in 1..Len(s) |-> LowerChar(s[i])]

\* str(n) for a natural number n.
RECURSIVE Str(_)
Str(n) ==
    LET digit(d) == <<"0","1","2","3","4","5","6","7","8","9">>[d + 1]
    IN  IF n < 10 THEN <<digit(n)>> ELSE Str(n \div 10) \o <<digit(n % 10)>>

\* str(base / rel) of pathlib: Path('.') / rel is rel itself.
PathJoin(base, rel) ==
    IF base = <<".">> THEN rel ELSE base \o <<"/">> \o rel

\* dict.get(key, default)
Get(d, key, default) == IF key \in DOMAIN d THEN d[key] ELSE default

\* None where the code expects a string: like '', it is falsy, and the model
\* does not tell the two apart.
NoneStr == <<>>

\* Truth value of a Python string.
Truthy(s) == Len(s) > 0

\* sum(1 for kw in keywords if kw in text)
Score(keywords, text) ==
    Cardinality({i \in 1..Len(keywords) : Contains(text, keywords[i])})

(***************************************************************************)
(* State.                                                                  *)
(***************************************************************************)
VARIABLES
    AUTO_CONFIRM,     \* module flag read from the environment at import
    BASE_DIR,         \* Path(__file__).parent
    operator,         \* what the operator types when input() asks
    inbox,            \* the Inbox directory: [exists, files]
    entry,            \* "run": AIOrchestrator.run(); "run_script": one direct call
    now,              \* wall clock, seconds
    mtime,            \* st_mtime of Audit_Log.md
    audit,            \* the entries of Audit_Log.md, in file order
    tasks_processed,  \* AIOrchestrator.tasks_processed
    errors,           \* AIOrchestrator.errors
    ralph_loop,       \* the RalphWiggumLoop object
    pc,               \* position of the single thread of control
    messages,         \* run(): the list read_inbox returned
    index,            \* run(): position of the for loop in messages
    frame,            \* process_message locals (direct call: the caller's argument)
    rs,               \* run_script locals
    rs_ret,           \* the value run_script returned last
    result,           \* the value run() returned
    calls,            \* history: one record per process_message call
    run_scripts,      \* history: one record per run_script call
    launches,         \* history: one record per subprocess.run call
    confirms,         \* history: one record per HumanInTheLoop.confirm call
    sleeps,           \* history: the arguments of time.sleep
    exit_code,        \* the value main() returned to sys.exit
    audit_exists,     \* Audit_Log.md exists
    writers,          \* the processes writing Audit_Log.md: their positions
    invocations,      \* history: one record per run() call that has returned
    inbox_handler,    \* Watchers/inbox_watcher.py: the InboxHandler and its Inbox
    watcher_loop,     \* a browser watcher: run_watcher_with_retry and its loop
    analysis          \* weekly_audit.py: analyze_with_ralph_loop and its loop

vars ==
    << AUTO_CONFIRM, BASE_DIR, operator, inbox, entry, now, mtime, audit,
       tasks_processed, errors, ralph_loop, pc, messages, index, frame, rs,
       rs_ret, result, calls, run_scripts, launches, confirms, sleeps,
       exit_code, audit_exists, writers, invocations, inbox_handler,
       watcher_loop, analysis >>

\* The other programs of the repository, which the orchestrator does not
\* touch.
programs == << inbox_handler, watcher_loop, analysis >>

\* What run() and run_script leave alone: the process's exit code, the audit
\* file as the several processes writing it see it, the record of the run()
\* calls that returned, and the other programs.
outside == << exit_code, audit_exists, writers, invocations, programs >>

config == << AUTO_CONFIRM, BASE_DIR, operator, inbox, entry >>

\* The orchestrator's variables, which the other programs do not touch.
orchestrator ==
    << config, now, mtime, audit, tasks_processed, errors, ralph_loop, pc,
       messages, index, frame, rs, rs_ret, result, calls, run_scripts, launches,
       confirms, sleeps, exit_code, audit_exists, writers, invocations >>

\* A Python local or return value that does not exist (yet).
None == [none |-> TRUE]

(***************************************************************************)
(* AuditLogger: every logging call appends one entry to Audit_Log.md.  An  *)
(* entry is a record of the fields the call writes; `a` is the file's      *)
(* entries before the call and `t` the clock read for the timestamp.       *)
(***************************************************************************)
\* Mutant: the file is opened with 'w', so the entry replaces the file.
AppendEntry_Truncating(a, e) == << e >>

\* Mutant: the entry is written at the head of the file.
AppendEntry_Prepending(a, e) == << e >> \o a

\* open(audit_log_path, 'a') and the writes of one entry.
AppendEntry(a, e) == Append(a, e)

\* AuditLogger.log(event_type, details, status)
Log(a, t, event_type, details, status) ==
    AppendEntry(a, [entry |-> "EVENT", timestamp |-> t, status |-> status,
               event_type |-> event_type, details |-> details])

\* AuditLogger.log_task(task_id, action, domain, status, details)
log_task(a, t, task_id, action, domain, status, details) ==
    AppendEntry(a, [entry |-> "TASK", timestamp |-> t, task_id |-> task_id,
               action |-> action, domain |-> domain, status |-> status,
               details |-> details])

\* Mutant: every error entry announces the graceful skip.
log_error_AlwaysSkipping(a, t, task_id, error, attempt, max_attempts) ==
    AppendEntry(a, [entry |-> "ERROR", timestamp |-> t, task_id |-> task_id,
               error |-> error, attempt |-> attempt,
               max_attempts |-> max_attempts,
               action |-> "Skipping gracefully"])

\* AuditLogger.log_error(task_id, error, attempt, max_attempts)
log_error(a, t, task_id, error, attempt, max_attempts) ==
    AppendEntry(a, [entry |-> "ERROR", timestamp |-> t, task_id |-> task_id,
               error |-> error, attempt |-> attempt,
               max_attempts |-> max_attempts,
               action |-> IF attempt < max_attempts
                          THEN "Retrying" ELSE "Skipping gracefully"])

\* AuditLogger.log_human_decision(task_id, action, confirmed)
log_human_decision(a, t, task_id, action, confirmed) ==
    AppendEntry(a, [entry |-> "HUMAN_DECISION", timestamp |-> t,
               task_id |-> task_id, action |-> action,
               decision |-> IF confirmed THEN "CONFIRMED" ELSE "DENIED"])

\* AuditLogger.weekly_audit_summary(tasks_processed, errors, success_rate)
weekly_audit_summary(a, t, processed, errs, success_rate) ==
    AppendEntry(a, [entry |-> "WEEKLY_SUMMARY", timestamp |-> t,
               tasks_processed |-> processed, errors |-> errs,
               success_rate |-> success_rate])

\* AuditLogger.check_weekly_audit, for the file modified last at m and the
\* clock at t: the value returned and the file afterwards.  (The file exists
\* from the AuditLogger's construction on.)
check_weekly_audit(a, m, t) ==
    IF t >= m + WEEKLY_AUDIT_INTERVAL
    THEN [due |-> TRUE,
          audit |-> Log(a, t, "WEEKLY_AUDIT_TRIGGER", [last_audit |-> m], "INFO")]
    ELSE [due |-> FALSE, audit |-> a]

(***************************************************************************)
(* MessageClassifier.                                                      *)
(***************************************************************************)
\* Mutant: the business tags are tested first.
classify_BusinessFirst(message) ==
    LET source  == Lower(Get(message, "source", <<>>))
        subject == Lower(Get(message, "subject", <<>>))
        content == Lower(Get(message, "content", <<>>))
        text    == subject \o <<" ">> \o content
        personal_score  == Score(personal_keywords, text)
        business_score  == Score(business_keywords, text)
    IN  IF \E i \in 1..Len(BUSINESS_DOMAINS) : Contains(source, BUSINESS_DOMAINS[i])
        THEN "business"
        ELSE IF \E i \in 1..Len(PERSONAL_DOMAINS) : Contains(source, PERSONAL_DOMAINS[i])
        THEN "personal"
        ELSE IF personal_score > business_score THEN "personal"
        ELSE IF business_score > personal_score THEN "business"
        ELSE "unknown"

\* MessageClassifier.classify(message): the value of the MessageType.
classify(message) ==
    LET source  == Lower(Get(message, "source", <<>>))
        subject == Lower(Get(message, "subject", <<>>))
        content == Lower(Get(message, "content", <<>>))
        text    == subject \o <<" ">> \o content
        personal_score  == Score(personal_keywords, text)
        business_score  == Score(business_keywords, text)
    IN  IF \E i \in 1..Len(PERSONAL_DOMAINS) : Contains(source, PERSONAL_DOMAINS[i])
        THEN "personal"
        ELSE IF \E i \in 1..Len(BUSINESS_DOMAINS) : Contains(source, BUSINESS_DOMAINS[i])
        THEN "business"
        ELSE IF personal_score > business_score THEN "personal"
        ELSE IF business_score > personal_score THEN "business"
        ELSE "unknown"

(***************************************************************************)
(* HumanInTheLoop.                                                         *)
(***************************************************************************)
\* The characters of an action label: the labels the orchestrator passes
\* (process_message, script_execution, batch_post) and labels of other callers.
Chars(action) ==
    CASE action = "batch_post" ->
             <<"b","a","t","c","h","_","p","o","s","t">>
      [] action = "process_message" ->
             <<"p","r","o","c","e","s","s","_","m","e","s","s","a","g","e">>
      [] action = "script_execution" ->
             <<"s","c","r","i","p","t","_","e","x","e","c","u","t","i","o","n">>
      [] action = "social_post" ->
             <<"s","o","c","i","a","l","_","p","o","s","t">>
      [] action = "linkedin_login" ->
             <<"l","i","n","k","e","d","i","n","_","l","o","g","i","n">>
      [] action = "LOGIN" -> <<"L","O","G","I","N">>
      [] action = "POST" -> <<"P","O","S","T">>
      [] action = "Delete_Account" ->
             <<"D","e","l","e","t","e","_","A","c","c","o","u","n","t">>
      [] action = "financial_report" ->
             <<"f","i","n","a","n","c","i","a","l","_","r","e","p","o","r","t">>
      [] action = "account_change" ->
             <<"a","c","c","o","u","n","t","_","c","h","a","n","g","e">>
      [] action = "account-change" ->
             <<"a","c","c","o","u","n","t","-","c","h","a","n","g","e">>
      [] action = "Facebook_Share" ->
             <<"F","a","c","e","b","o","o","k","_","S","h","a","r","e">>
      [] action = "instagram_story" ->
             <<"i","n","s","t","a","g","r","a","m","_","s","t","o","r","y">>
      [] action = "twitter_dm" ->
             <<"t","w","i","t","t","e","r","_","d","m">>
      [] action = "read_inbox" ->
             <<"r","e","a","d","_","i","n","b","o","x">>
      [] action = "send_email" ->
             <<"s","e","n","d","_","e","m","a","i","l">>
      [] action = "log_in" -> <<"l","o","g","_","i","n">>
      [] action = "classify" -> <<"c","l","a","s","s","i","f","y">>
      [] action = "" -> <<>>

\* Mutant: the label must equal a vocabulary entry.
is_sensitive_ExactMatch(action) ==
    LET action_lower == Lower(Chars(action))
    IN  \E i \in 1..Len(SENSITIVE_ACTIONS) :
            action_lower = SENSITIVE_ACTIONS[i]

\* HumanInTheLoop.is_sensitive(action)
is_sensitive(action) ==
    LET action_lower == Lower(Chars(action))
    IN  \E i \in 1..Len(SENSITIVE_ACTIONS) :
            Contains(action_lower, SENSITIVE_ACTIONS[i])

\* The answers confirm() takes for an approval (after strip().lower()).
Approves(response) == response \in {"yes", "y", "ye"}

\* HumanInTheLoop.confirm(action, details): whether input() was reached
\* (prompted) and the value returned.
confirm(action) ==
    IF AUTO_CONFIRM THEN [prompted |-> FALSE, confirmed |-> TRUE]
    ELSE IF ~is_sensitive(action) THEN [prompted |-> FALSE, confirmed |-> TRUE]
    ELSE [prompted |-> TRUE, confirmed |-> Approves(operator)]

(***************************************************************************)
(* AIOrchestrator: script mappings (dicts, in insertion order).            *)
(***************************************************************************)
personal_scripts ==
    << [key |-> <<"g","m","a","i","l">>,
        script |-> PathJoin(BASE_DIR, <<"W","a","t","c","h","e","r","s","/","g","m","a","i","l","_","w","a","t","c","h","e","r",".","p","y">>)],
       [key |-> <<"w","h","a","t","s","a","p","p">>,
        script |-> PathJoin(BASE_DIR, <<"W","h","a","t","s","A","p","p","/","w","h","a","t","s","a","p","p","_","w","a","t","c","h","e","r",".","p","y">>)] >>

business_scripts ==
    << [key |-> <<"l","i","n","k","e","d","i","n">>,
        script |-> PathJoin(BASE_DIR, <<"L","i","n","k","e","d","I","n","/","l","i","n","k","e","d","i","n","_","w","a","t","c","h","e","r",".","p","y">>)],
       [key |-> <<"f","a","c","e","b","o","o","k">>,
        script |-> PathJoin(BASE_DIR, <<"W","a","t","c","h","e","r","s","/","f","a","c","e","b","o","o","k","_","w","a","t","c","h","e","r",".","p","y">>)],
       [key |-> <<"i","n","s","t","a","g","r","a","m">>,
        script |-> PathJoin(BASE_DIR, <<"W","a","t","c","h","e","r","s","/","i","n","s","t","a","g","r","a","m","_","w","a","t","c","h","e","r",".","p","y">>)],
       [key |-> <<"t","w","i","t","t","e","r">>,
        script |-> PathJoin(BASE_DIR, <<"W","a","t","c","h","e","r","s","/","t","w","i","t","t","e","r","_","w","a","t","c","h","e","r",".","p","y">>)],
       [key |-> <<"x">>,
        script |-> PathJoin(BASE_DIR, <<"W","a","t","c","h","e","r","s","/","t","w","i","t","t","e","r","_","w","a","t","c","h","e","r",".","p","y">>)] >>

\* Mutant: no default when no key occurs in source.
Lookup_NoDefault(scripts, source, default) ==
    LET hits == {i \in 1..Len(scripts) : Contains(source, scripts[i].key)}
        first(S) == CHOOSE i \in S : \A j \in S : i <= j
    IN  IF hits # {} THEN scripts[first(hits)].script ELSE NoneStr

\* The script of the first entry of a mapping whose key occurs in source,
\* else the script stored under the default key (dict.get: None if absent).
Lookup(scripts, source, default) ==
    LET hits == {i \in 1..Len(scripts) : Contains(source, scripts[i].key)}
        dflt == {i \in 1..Len(scripts) : scripts[i].key = default}
        first(S) == CHOOSE i \in S : \A j \in S : i <= j
    IN  IF hits # {} THEN scripts[first(hits)].script
        ELSE IF dflt # {} THEN scripts[first(dflt)].script
        ELSE NoneStr

\* Mutant: an unknown message falls back to the business default.
get_script_for_message_DefaultForUnknown(message, msg_type) ==
    LET source == Lower(Get(message, "source", <<>>))
    IN  IF msg_type = "personal"
        THEN Lookup(personal_scripts, source, <<"w","h","a","t","s","a","p","p">>)
        ELSE Lookup(business_scripts, source, <<"l","i","n","k","e","d","i","n">>)

\* AIOrchestrator.get_script_for_message(message, msg_type)
get_script_for_message(message, msg_type) ==
    LET source == Lower(Get(message, "source", <<>>))
    IN  IF msg_type = "personal"
        THEN Lookup(personal_scripts, source, <<"w","h","a","t","s","a","p","p">>)
        ELSE IF msg_type = "business"
        THEN Lookup(business_scripts, source, <<"l","i","n","k","e","d","i","n">>)
        ELSE NoneStr

(***************************************************************************)
(* RalphWiggumLoop.  Each method maps the loop object and the audit file   *)
(* to their values after the call.                                         *)
(***************************************************************************)
\* RalphWiggumLoop.start(task_id)
start(loop, a, t, task_id) ==
    [loop  |-> [loop EXCEPT !.current_iteration = 0,
                            !.task_status = "in_progress",
                            !.task_id = task_id],
     audit |-> IF Truthy(task_id)
               THEN Log(a, t, "RALPH_WIGGUM_START",
                        [Task |-> task_id, Max_iterations |-> loop.max_iterations],
                        "INFO")
               ELSE a]

\* Mutant: the loop ends only when the counter has passed max_iterations.
next_iteration_PastMax(loop, a, t) ==
    LET n == loop.current_iteration + 1
    IN  IF n > loop.max_iterations
        THEN [continue |-> FALSE,
              loop  |-> [loop EXCEPT !.current_iteration = n,
                                     !.task_status = "failed"],
              audit |-> IF Truthy(loop.task_id)
                        THEN Log(a, t, "RALPH_WIGGUM_MAX",
                                 [Task |-> loop.task_id, Iterations |-> n], "INFO")
                        ELSE a]
        ELSE [continue |-> TRUE,
              loop  |-> [loop EXCEPT !.current_iteration = n],
              audit |-> IF Truthy(loop.task_id)
                        THEN Log(a, t, "RALPH_WIGGUM_ITERATION",
                                 [Task |-> loop.task_id, Iteration |-> n], "INFO")
                        ELSE a]

\* RalphWiggumLoop.next_iteration(): also the value returned (continue).
next_iteration(loop, a, t) ==
    LET n == loop.current_iteration + 1
    IN  IF n >= loop.max_iterations
        THEN [continue |-> FALSE,
              loop  |-> [loop EXCEPT !.current_iteration = n,
                                     !.task_status = "failed"],
              audit |-> IF Truthy(loop.task_id)
                        THEN Log(a, t, "RALPH_WIGGUM_MAX",
                                 [Task |-> loop.task_id, Iterations |-> n], "INFO")
                        ELSE a]
        ELSE [continue |-> TRUE,
              loop  |-> [loop EXCEPT !.current_iteration = n],
              audit |-> IF Truthy(loop.task_id)
                        THEN Log(a, t, "RALPH_WIGGUM_ITERATION",
                                 [Task |-> loop.task_id, Iteration |-> n], "INFO")
                        ELSE a]

\* Mutant: complete() sets the status and writes no entry.
complete_Silent(loop, a, t) ==
    [loop  |-> [loop EXCEPT !.task_status = "complete"],
     audit |-> a]

\* RalphWiggumLoop.complete()
complete(loop, a, t) ==
    [loop  |-> [loop EXCEPT !.task_status = "complete"],
     audit |-> IF Truthy(loop.task_id)
               THEN Log(a, t, "RALPH_WIGGUM_COMPLETE",
                        [Task |-> loop.task_id,
                         Iterations |-> loop.current_iteration], "SUCCESS")
               ELSE a]

\* Mutant: fail() puts the loop back to pending.
fail_ResetsToPending(loop, a, t, reason) ==
    [loop  |-> [loop EXCEPT !.task_status = "pending"],
     audit |-> IF Truthy(loop.task_id)
               THEN Log(a, t, "RALPH_WIGGUM_FAIL",
                        [Task |-> loop.task_id, Reason |-> reason], "FAILED")
               ELSE a]

\* RalphWiggumLoop.fail(reason)
fail(loop, a, t, reason) ==
    [loop  |-> [loop EXCEPT !.task_status = "failed"],
     audit |-> IF Truthy(loop.task_id)
               THEN Log(a, t, "RALPH_WIGGUM_FAIL",
                        [Task |-> loop.task_id, Reason |-> reason], "FAILED")
               ELSE a]

(***************************************************************************)
(* The environment: inbox files, script paths, handler outcomes.           *)
(***************************************************************************)
\* Contents of an Inbox/*.json file: a JSON object, or text json.load rejects.
InboxFiles ==
    { [valid |-> TRUE,
       json  |-> [id |-> <<"a">>, source |-> <<"g","m","a","i","l">>]],
      [valid |-> TRUE,
       json  |-> [source |-> <<"L","i","n","k","e","d","I","n">>]],
      [valid |-> TRUE,
       json  |-> [source  |-> <<"u","n","k","n","o","w","n","_","p","l","a","t","f","o","r","m">>,
                  content |-> <<"l","u","n","c","h">>]],
      [valid |-> FALSE] }

\* The Inbox directory: missing, or holding up to MaxInbox files in the order
\* glob yields them.
Inboxes ==
    { [exists |-> FALSE, files |-> <<>>] } \cup
    { [exists |-> TRUE, files |-> f] :
        f \in UNION { [1..n -> InboxFiles] : n \in 0..MaxInbox } }

\* Directories the orchestrator may be installed in.
BaseDirs == { <<".">>, <<"/","o","p","t","/","f","b","_","p","o","s","t","e","r">> }

\* Script paths of a direct run_script call.
ScriptPaths ==
    { <<"W","a","t","c","h","e","r","s","/","g","m","a","i","l","_","w","a","t","c","h","e","r",".","p","y">>,
      <<"L","i","n","k","e","d","I","n","/","l","i","n","k","e","d","i","n","_","p","o","s","t","e","r",".","p","y">>,
      <<"g","m","a","i","l","_","L","o","g","i","n",".","p","y">> }

\* Number of subprocess.run calls made during the k-th process_message call
\* (k = 0: during a direct run_script call).
LaunchesOf(k) == Cardinality({i \in 1..Len(launches) : launches[i].call = k})

\* What one subprocess.run call can do: exit 0, exit non-zero, exceed the
\* timeout, or fail to launch (any other exception).
FailureKinds == << "exit", "timeout", "exception" >>

\* Outcomes open to the next handler invocation.  A direct run_script call
\* explores every outcome at every attempt.  Under run() the n-th invocation
\* for a task either succeeds (within the first MaxFlaky) or fails, the kind
\* of failure rotating with n.
HandlerOutcomes ==
    IF entry = "run_script"
    THEN {"ok"} \cup {FailureKinds[i] : i \in 1..Len(FailureKinds)}
    ELSE LET n == LaunchesOf(Len(calls))
         IN  (IF n < MaxFlaky THEN {"ok"} ELSE {})
             \cup {FailureKinds[(n % Len(FailureKinds)) + 1]}

\* last_error after a failed attempt.
ErrorText(outcome) ==
    CASE outcome = "exit"      -> "Script exited with code 1"
      [] outcome = "timeout"   -> "Script timed out"
      [] outcome = "exception" -> "str(e)"

(***************************************************************************)
(* AIOrchestrator.read_inbox                                               *)
(***************************************************************************)
RECURSIVE ReadFiles(_, _)
ReadFiles(files, i) ==
    IF i > Len(files) THEN <<>>
    ELSE (IF files[i].valid
          THEN << files[i].json @@ ("_file" :> i) >>
          ELSE <<>>) \o ReadFiles(files, i + 1)

read_inbox == IF ~inbox.exists THEN <<>> ELSE ReadFiles(inbox.files, 1)

(***************************************************************************)
(* Initial states.                                                         *)
(***************************************************************************)
\* The operator's answer to a prompt.  Under AUTO_CONFIRM confirm() returns
\* before any prompt, so one answer stands for all.
Operators == IF AUTO_CONFIRM THEN {"yes"} ELSE {"yes", "no"}

\* A RalphWiggumLoop as constructed.
NewLoop ==
    [max_iterations |-> RALPH_WIGGUM_MAX_ITERATIONS, current_iteration |-> 0,
     task_status |-> "pending", task_id |-> NoneStr]

\* AIOrchestrator() has been constructed (its ORCHESTRATOR_START entry is the
\* last write to the audit file) and run() is about to be called, at once or
\* after the orchestrator sat idle for an audit interval.
Init ==
    /\ AUTO_CONFIRM \in BOOLEAN
    /\ BASE_DIR \in BaseDirs
    /\ operator \in Operators
    /\ inbox \in Inboxes
    /\ entry = "run"
    /\ mtime = 0
    /\ now \in {0, WEEKLY_AUDIT_INTERVAL}
    /\ audit = Log(<<>>, 0, "ORCHESTRATOR_START",
                    [text |-> "Gold Tier AI Orchestrator initialized"], "INFO")
    /\ tasks_processed = 0
    /\ errors = 0
    /\ ralph_loop = NewLoop
    /\ pc = "start"
    /\ messages = <<>>
    /\ index = 0
    /\ frame = None
    /\ rs = None
    /\ rs_ret = None
    /\ result = None
    /\ calls = <<>>
    /\ run_scripts = <<>>
    /\ launches = <<>>
    /\ confirms = <<>>
    /\ sleeps = <<>>
    /\ exit_code = None
    /\ invocations = <<>>
    /\ inbox_handler = None
    /\ watcher_loop = None
    /\ analysis = None
    /\ audit_exists = TRUE
    /\ writers = <<>>

\* A ScriptRunner over a fresh AuditLogger, and run_script(script_path) has
\* just been entered with the default timeout and task_id.
InitRunScript ==
    /\ AUTO_CONFIRM \in BOOLEAN
    /\ BASE_DIR = <<".">>
    /\ operator \in Operators
    /\ inbox = [exists |-> FALSE, files |-> <<>>]
    /\ entry = "run_script"
    /\ mtime = 0
    /\ now = 0
    /\ audit = <<>>
    /\ tasks_processed = 0
    /\ errors = 0
    /\ ralph_loop = NewLoop
    /\ pc = "attempt"
    /\ messages = <<>>
    /\ index = 0
    /\ \E p \in ScriptPaths :
          /\ frame = [script_path |-> p]
          /\ rs = [script_path |-> p, timeout |-> DEFAULT_TIMEOUT,
                   task_id |-> <<"u","n","k","n","o","w","n">>,
                   retries |-> 0, last_error |-> "None"]
    /\ run_scripts = << [call |-> 0] >>
    /\ rs_ret = None
    /\ result = None
    /\ calls = <<>>
    /\ launches = <<>>
    /\ confirms = <<>>
    /\ sleeps = <<>>
    /\ exit_code = None
    /\ invocations = <<>>
    /\ inbox_handler = None
    /\ watcher_loop = None
    /\ analysis = None
    /\ audit_exists = TRUE
    /\ writers = <<>>

(***************************************************************************)
(* AIOrchestrator.run, process_message and ScriptRunner.run_script: one    *)
(* action per pass through the body of each of the three loops (for,       *)
(* while next_iteration(), while retries < MAX_RETRIES).                   *)
(***************************************************************************)
\* Mutant: the error is not counted.
CountError_Forgotten(n) == n

\* self.errors += 1
CountError(n) == n + 1

\* self.tasks_processed += 1
CountProcessed(n) == n + 1

\* Mutant: the loop stops at the first task that failed.
for_continues_AbortOnError(i, msgs) == i <= Len(msgs) /\ errors = 0

\* run(): `for message in messages` has a message left at position i.
for_continues(i, msgs) == i <= Len(msgs)

\* History: process_message has returned; its record gets the outcome and
\* the audit file's length, the counters and the loop object at the return.
Returned(call, o, a, processed, errs, loop) ==
    [call EXCEPT !.outcome = o, !.audit1 = Len(a), !.processed1 = processed,
                 !.errors1 = errs, !.loop1 = loop]

\* Mutant: no task processed counts as failure.
no_messages_result_ZeroRate ==
    [processed |-> 0, errors |-> 0, success_rate |-> [num |-> 0, den |-> 1]]

\* run(): the dict returned when read_inbox gave no message.
no_messages_result ==
    [processed |-> 0, errors |-> 0, success_rate |-> [num |-> 100, den |-> 1]]

\* run(): from its entry to the head of the for loop, or to the early return
\* for an empty inbox.
Run_Begin ==
    /\ pc = "start"
    /\ LET chk  == check_weekly_audit(audit, mtime, now)
           msgs == read_inbox
       IN  /\ audit' = chk.audit
           /\ mtime' = IF chk.due THEN now ELSE mtime
           /\ messages' = msgs
           /\ IF msgs = <<>>
              THEN /\ result' = no_messages_result
                   /\ pc' = "done"
                   /\ index' = index
              ELSE /\ result' = result
                   /\ pc' = "for"
                   /\ index' = 1
    /\ UNCHANGED << config, outside, now, tasks_processed, errors, ralph_loop, frame, rs,
                    rs_ret, calls, run_scripts, launches, confirms, sleeps >>

\* run(): the for loop takes the next message; process_message runs from its
\* entry to the head of its while loop, or to one of its early returns.
ProcessMessage ==
    /\ pc = "for"
    /\ for_continues(index, messages)
    /\ LET message == messages[index]
           task_id == Get(message, "id",
                          <<"t","a","s","k","_">> \o Str(tasks_processed))
           label   == "process_message"
           gated   == is_sensitive("batch_post")
                      /\ ~AUTO_CONFIRM
           c       == confirm(label)
           denied  == gated /\ ~c.confirmed
           msg_type == classify(message)
           a1      == Log(audit, now, "MESSAGE_CLASSIFIED",
                          [Task |-> task_id, Type |-> msg_type], "INFO")
           script_path == get_script_for_message(message, msg_type)
           domain  == IF msg_type = "personal" THEN "personal" ELSE "business"
           st      == start(ralph_loop, a1, now, task_id)
           call    == [file |-> message["_file"], task_id |-> task_id,
                       script_path |-> script_path,
                       outcome |-> "running", audit0 |-> Len(audit),
                       processed0 |-> tasks_processed, errors0 |-> errors,
                       loop0 |-> ralph_loop, audit1 |-> 0, processed1 |-> 0,
                       errors1 |-> 0, loop1 |-> None]
       IN  /\ confirms' = IF gated
                          THEN Append(confirms,
                                      [call |-> Len(calls) + 1, action |-> label,
                                       attempt |-> 0,
                                       prompted |-> c.prompted,
                                       confirmed |-> c.confirmed])
                          ELSE confirms
           /\ IF denied
              THEN /\ audit' = log_human_decision(audit, now, task_id, label, FALSE)
                   /\ errors' = CountError(errors)
                   /\ calls' = Append(calls, Returned(call, "denied", audit',
                                                      tasks_processed, errors',
                                                      ralph_loop))
                   /\ index' = index + 1
                   /\ UNCHANGED << pc, frame, ralph_loop >>
              ELSE IF ~Truthy(script_path)
              THEN /\ audit' = log_task(a1, now, task_id, "CLASSIFY", "unknown",
                                        "FAILED",
                                        [text |-> "No matching script found"])
                   /\ errors' = CountError(errors)
                   /\ calls' = Append(calls, Returned(call, "no_handler", audit',
                                                      tasks_processed, errors',
                                                      ralph_loop))
                   /\ index' = index + 1
                   /\ UNCHANGED << pc, frame, ralph_loop >>
              ELSE /\ audit' = st.audit
                   /\ ralph_loop' = st.loop
                   /\ frame' = [message |-> message, task_id |-> task_id,
                                msg_type |-> msg_type, script_path |-> script_path,
                                domain |-> domain]
                   /\ calls' = Append(calls, call)
                   /\ pc' = "while"
                   /\ UNCHANGED << errors, index >>
    /\ mtime' = now
    /\ UNCHANGED << config, outside, now, tasks_processed, messages, rs, rs_ret, result,
                    run_scripts, launches, sleeps >>

\* process_message: the head of the while loop.  next_iteration() either
\* lets run_script be entered or ends the loop, and then process_message
\* records the failure and returns.
NextIteration ==
    /\ pc = "while"
    /\ LET nx == next_iteration(ralph_loop, audit, now)
           fl == fail(nx.loop, nx.audit, now,
                      [Max_iterations_exhausted_for |-> frame.task_id])
       IN  IF nx.continue
           THEN /\ ralph_loop' = nx.loop
                /\ audit' = nx.audit
                /\ rs' = [script_path |-> frame.script_path,
                          timeout |-> DEFAULT_TIMEOUT,
                          task_id |-> frame.task_id,
                          retries |-> 0, last_error |-> "None"]
                /\ run_scripts' = Append(run_scripts, [call |-> Len(calls)])
                /\ pc' = "attempt"
                /\ UNCHANGED << errors, index, frame, calls >>
           ELSE /\ ralph_loop' = fl.loop
                /\ audit' = log_task(fl.audit, now, frame.task_id, "PROCESS",
                                     frame.domain, "FAILED",
                                     [exhausted_after_iterations |->
                                          fl.loop.current_iteration])
                /\ errors' = CountError(errors)
                /\ calls' = [calls EXCEPT ![Len(calls)] =
                                 Returned(@, "exhausted", audit', tasks_processed,
                                          errors', ralph_loop')]
                /\ index' = index + 1
                /\ frame' = None
                /\ pc' = "for"
                /\ UNCHANGED << rs, run_scripts >>
    /\ mtime' = IF audit' = audit THEN mtime ELSE now
    /\ UNCHANGED << config, outside, now, tasks_processed, messages, rs_ret, result,
                    launches, confirms, sleeps >>

\* Mutant: off by one, retries <= MAX_RETRIES.
run_script_continues_OffByOne(retries) == retries <= MAX_RETRIES

\* run_script's loop condition.
run_script_continues(retries) == retries < MAX_RETRIES

\* Mutant: the exponent is the number of failed attempts, not one less.
backoff_delay_FromAttempt(retries) == RETRY_DELAY * (2 ^ retries)

\* run_script: delay = RETRY_DELAY * (2 ** (retries - 1)), retries already
\* counting the attempt that just failed.
backoff_delay(retries) == RETRY_DELAY * (2 ^ (retries - 1))

\* Mutant: only the timeout has an except clause.
handled_TimeoutOnly(outcome) == outcome \in {"exit", "timeout"}

\* run_script: the failed attempt stays inside the loop body.  A non-zero
\* exit raises nothing; `except subprocess.TimeoutExpired` takes the
\* timeout and `except Exception` whatever else subprocess.run raises.
handled(outcome) == outcome \in {"exit", "timeout", "exception"}

\* run_script returns ret at time t, the audit file holding a and modified
\* last at m.  A direct call ends there.  Under process_message a success
\* completes the loop, is audited and counted, and process_message returns;
\* a failure leads back to the head of the while loop.
ReturnFromRunScript(ret, a, m, t) ==
    /\ rs_ret' = ret
    /\ rs' = None
    /\ IF entry = "run_script"
       THEN /\ pc' = "done"
            /\ audit' = a
            /\ mtime' = m
            /\ UNCHANGED << ralph_loop, tasks_processed, index, frame, calls >>
       ELSE IF ret.success
       THEN LET cp == complete(ralph_loop, a, t)
            IN  /\ ralph_loop' = cp.loop
                /\ audit' = log_task(cp.audit, t, frame.task_id, "PROCESS",
                                     frame.domain, "SUCCESS",
                                     [Script |-> frame.script_path,
                                      Retries |-> ret.retries])
                /\ mtime' = t
                /\ tasks_processed' = CountProcessed(tasks_processed)
                /\ calls' = [calls EXCEPT ![Len(calls)] =
                                 Returned(@, "success", audit', tasks_processed',
                                          errors, ralph_loop')]
                /\ index' = index + 1
                /\ frame' = None
                /\ pc' = "for"
       ELSE /\ pc' = "while"
            /\ audit' = a
            /\ mtime' = m
            /\ UNCHANGED << ralph_loop, tasks_processed, index, frame, calls >>

\* run_script: one pass through the body of its while loop (the gate, the
\* subprocess, the bookkeeping of a failure and the sleep that follows it),
\* then the loop condition: the next pass, or the return.
RunScriptAttempt ==
    /\ pc = "attempt"
    /\ LET path      == Lower(rs.script_path)
           sensitive == Contains(path, <<"l","o","g","i","n">>)
                        \/ Contains(path, <<"p","o","s","t","e","r">>)
           label     == "script_execution"
           c         == confirm(label)
           asked     == run_script_continues(rs.retries) /\ sensitive
       IN  /\ confirms' = IF asked
                          THEN Append(confirms,
                                      [call |-> Len(calls), action |-> label,
                                       attempt |-> rs.retries + 1,
                                       prompted |-> c.prompted,
                                       confirmed |-> c.confirmed])
                          ELSE confirms
           /\ IF ~run_script_continues(rs.retries)
              THEN /\ ReturnFromRunScript([success |-> FALSE,
                                           output |-> rs.last_error,
                                           retries |-> rs.retries],
                                          audit, mtime, now)
                   /\ UNCHANGED << now, launches, sleeps >>
              ELSE IF sensitive /\ ~c.confirmed
              THEN /\ ReturnFromRunScript(
                          [success |-> FALSE, output |-> "Human denied execution",
                           retries |-> 0],
                          log_human_decision(audit, now, rs.task_id, label, FALSE),
                          now, now)
                   /\ UNCHANGED << now, launches, sleeps >>
              ELSE \E outcome \in HandlerOutcomes :
                   /\ launches' = Append(launches,
                                         [call |-> Len(calls),
                                          attempt |-> rs.retries + 1,
                                          outcome |-> outcome])
                   /\ IF outcome = "ok"
                      THEN /\ ReturnFromRunScript([success |-> TRUE,
                                                   output |-> "stdout",
                                                   retries |-> rs.retries],
                                                  audit, mtime, now)
                           /\ UNCHANGED << now, sleeps >>
                      ELSE IF ~handled(outcome)
                      THEN \* the exception leaves run_script
                           /\ pc' = "raised"
                           /\ UNCHANGED << now, sleeps, audit, mtime, rs, rs_ret,
                                           ralph_loop, tasks_processed, index,
                                           frame, calls >>
                      ELSE LET last_error == ErrorText(outcome)
                               t1      == IF outcome = "timeout"
                                          THEN now + rs.timeout ELSE now
                               a1      == log_error(audit, t1, rs.task_id, last_error,
                                                    rs.retries + 1, MAX_RETRIES)
                               retries == rs.retries + 1
                               sleep   == retries < MAX_RETRIES
                               delay   == backoff_delay(retries)
                               t2      == IF sleep THEN t1 + delay ELSE t1
                           IN  /\ sleeps' = IF sleep THEN Append(sleeps, delay)
                                            ELSE sleeps
                               /\ now' = t2
                               /\ IF run_script_continues(retries)
                                  THEN /\ audit' = a1
                                       /\ mtime' = t1
                                       /\ rs' = [rs EXCEPT !.retries = retries,
                                                           !.last_error = last_error]
                                       /\ UNCHANGED << pc, rs_ret, ralph_loop,
                                                       tasks_processed, index,
                                                       frame, calls >>
                                  ELSE \* all retries exhausted - graceful skip
                                       ReturnFromRunScript(
                                           [success |-> FALSE,
                                            output |-> last_error,
                                            retries |-> retries], a1, t1, t2)
    /\ UNCHANGED << config, outside, errors, messages, result, run_scripts >>

\* Mutant: the rate of the errors.
success_rate_OfErrors(processed, errs) ==
    LET total == processed + errs
    IN  IF total > 0 THEN [num |-> errs * 100, den |-> total]
        ELSE [num |-> 100, den |-> 1]

\* run(): success_rate = (tasks_processed / total * 100) if total > 0 else
\* 100.0, as the fraction num / den.
success_rate(processed, errs) ==
    LET total == processed + errs
    IN  IF total > 0 THEN [num |-> processed * 100, den |-> total]
        ELSE [num |-> 100, den |-> 1]

\* run(): the for loop is over; metrics, the second weekly check, return.
Run_Finish ==
    /\ pc = "for"
    /\ ~for_continues(index, messages)
    /\ LET rate == success_rate(tasks_processed, errors)
           chk  == check_weekly_audit(audit, mtime, now)
       IN  /\ result' = [processed |-> tasks_processed, errors |-> errors,
                         success_rate |-> rate]
           /\ audit' = IF chk.due
                       THEN weekly_audit_summary(chk.audit, now, tasks_processed,
                                                 errors, rate)
                       ELSE chk.audit
           /\ mtime' = IF chk.due THEN now ELSE mtime
    /\ pc' = "done"
    /\ UNCHANGED << config, outside, now, tasks_processed, errors, ralph_loop, messages,
                    index, frame, rs, rs_ret, calls, run_scripts, launches,
                    confirms, sleeps >>

\* Mutant: the exit code ignores the errors.
main_exit_code_AlwaysZero(res) == 0

\* main(): return 0 if result['errors'] == 0 else 1
main_exit_code(res) == IF res.errors = 0 THEN 0 ELSE 1

\* main(): run() has returned; the results are printed and the process exits
\* with the value main() returns.
Main_Exit ==
    /\ pc = "done"
    /\ exit_code' = main_exit_code(result)
    /\ pc' = "exited"
    /\ UNCHANGED << config, audit_exists, writers, invocations, programs, now, mtime,
                    audit, tasks_processed, errors, ralph_loop, messages, index,
                    frame, rs, rs_ret, result, calls, run_scripts, launches,
                    confirms, sleeps >>

Next ==
    \/ Run_Begin
    \/ ProcessMessage
    \/ NextIteration
    \/ RunScriptAttempt
    \/ Run_Finish
    \/ Main_Exit

Spec == Init /\ [][Next]_vars

\* One direct call of ScriptRunner.run_script.
NextRunScript == RunScriptAttempt

SpecRunScript == InitRunScript /\ [][NextRunScript]_vars

(***************************************************************************)
(* The metrics of run() over the counters it can end with: run() is about  *)
(* to start on an empty inbox, or its for loop has just finished a list of *)
(* messages of which `tasks_processed` succeeded and `errors` failed.  The *)
(* history variables are not recorded in this specification.               *)
(***************************************************************************)
\* Largest value of either counter explored.
MaxCount == 10

InitMetrics ==
    /\ AUTO_CONFIRM = TRUE
    /\ BASE_DIR = <<".">>
    /\ operator = "yes"
    /\ entry = "metrics"
    /\ mtime = 0
    /\ now = 0
    /\ audit = Log(<<>>, 0, "ORCHESTRATOR_START",
                    [text |-> "Gold Tier AI Orchestrator initialized"], "INFO")
    /\ ralph_loop = NewLoop
    /\ frame = None
    /\ rs = None
    /\ rs_ret = None
    /\ result = None
    /\ calls = <<>>
    /\ run_scripts = <<>>
    /\ launches = <<>>
    /\ confirms = <<>>
    /\ sleeps = <<>>
    /\ exit_code = None
    /\ invocations = <<>>
    /\ inbox_handler = None
    /\ watcher_loop = None
    /\ analysis = None
    /\ audit_exists = TRUE
    /\ writers = <<>>
    /\ \/ /\ inbox \in { [exists |-> FALSE, files |-> <<>>],
                         [exists |-> TRUE, files |-> <<>>] }
          /\ pc = "start"
          /\ messages = <<>>
          /\ index = 0
          /\ tasks_processed = 0
          /\ errors = 0
       \/ \E p \in 0..MaxCount, e \in 0..MaxCount :
          /\ p + e > 0
          /\ inbox = [exists |-> TRUE,
                      files |-> [i \in 1..(p + e) |->
                                    [valid |-> TRUE,
                                     json |-> [id |-> <<"a">>,
                                               source |-> <<"g","m","a","i","l">>]]]]
          /\ pc = "for"
          /\ messages = read_inbox
          /\ index = p + e + 1
          /\ tasks_processed = p
          /\ errors = e

NextMetrics ==
    \/ Run_Begin
    \/ Run_Finish

SpecMetrics == InitMetrics /\ [][NextMetrics]_vars

(***************************************************************************)
(* MessageClassifier.classify called on one message, several times over.   *)
(***************************************************************************)
\* Calls of classify on the same message.
MaxClassify == 2

Sources ==
    { <<>>,
      <<"G","m","a","i","l">>,
      <<"L","i","n","k","e","d","I","n">>,
      <<"p","e","r","s","o","n","a","l","-","l","i","n","k","e","d","i","n">>,
      <<"f","a","x">>,
      <<"s","m","s">> }

Subjects ==
    { <<"F","a","m","i","l","y"," ","d","i","n","n","e","r">>,
      <<"P","r","o","j","e","c","t"," ","d","e","a","d","l","i","n","e">>,
      <<"H","e","l","l","o">> }

Contents ==
    { <<"b","i","r","t","h","d","a","y"," ","p","a","r","t","y"," ","a","t"," ","w","o","r","k">>,
      <<"c","l","i","e","n","t"," ","m","e","e","t","i","n","g">>,
      <<"l","u","n","c","h">>,
      <<"h","o","m","e"," ","w","o","r","k">> }

\* Messages: each of source, subject and content present or missing.
ClassifiedMessages ==
    LET Field(name, values) == { <<>> } \cup { (name :> v) : v \in values }
    IN  { s @@ j @@ c : s \in Field("source", Sources),
                        j \in Field("subject", Subjects),
                        c \in Field("content", Contents) }

InitClassify ==
    /\ AUTO_CONFIRM = TRUE
    /\ BASE_DIR = <<".">>
    /\ operator = "yes"
    /\ inbox = [exists |-> FALSE, files |-> <<>>]
    /\ entry = "classify"
    /\ mtime = 0
    /\ now = 0
    /\ audit = <<>>
    /\ tasks_processed = 0
    /\ errors = 0
    /\ ralph_loop = NewLoop
    /\ pc = "classify"
    /\ messages \in { << m >> : m \in ClassifiedMessages }
    /\ index = 1
    /\ frame = None
    /\ rs = None
    /\ rs_ret = None
    /\ result = <<>>
    /\ calls = <<>>
    /\ run_scripts = <<>>
    /\ launches = <<>>
    /\ confirms = <<>>
    /\ sleeps = <<>>
    /\ exit_code = None
    /\ invocations = <<>>
    /\ inbox_handler = None
    /\ watcher_loop = None
    /\ analysis = None
    /\ audit_exists = TRUE
    /\ writers = <<>>

\* classifier.classify(message): result collects the values returned.
Classify ==
    /\ pc = "classify"
    /\ result' = Append(result, classify(messages[index]))
    /\ pc' = IF Len(result') >= MaxClassify THEN "done" ELSE pc
    /\ UNCHANGED << config, outside, now, mtime, audit, tasks_processed, errors,
                    ralph_loop, messages, index, frame, rs, rs_ret, calls,
                    run_scripts, launches, confirms, sleeps >>

NextClassify == Classify

SpecClassify == InitClassify /\ [][NextClassify]_vars

(***************************************************************************)
(* HumanInTheLoop.is_sensitive and HumanInTheLoop.confirm called directly, *)
(* on labels with and without a vocabulary entry, in either case of        *)
(* AUTO_CONFIRM and with each answer the operator can type.                *)
(***************************************************************************)
MaxConfirms == 2

ActionLabels ==
    {"batch_post", "process_message", "script_execution", "social_post",
     "linkedin_login", "LOGIN", "POST", "Delete_Account", "financial_report",
     "account_change", "account-change", "Facebook_Share", "instagram_story",
     "twitter_dm", "read_inbox", "send_email", "log_in", "classify", ""}

\* What input().strip().lower() can give.
Responses == {"yes", "y", "ye", "no", "n", ""}

InitConfirm ==
    /\ AUTO_CONFIRM \in BOOLEAN
    /\ BASE_DIR = <<".">>
    /\ operator \in Responses
    /\ inbox = [exists |-> FALSE, files |-> <<>>]
    /\ entry = "confirm"
    /\ mtime = 0
    /\ now = 0
    /\ audit = <<>>
    /\ tasks_processed = 0
    /\ errors = 0
    /\ ralph_loop = NewLoop
    /\ pc = "confirm"
    /\ messages = <<>>
    /\ index = 1
    /\ frame = None
    /\ rs = None
    /\ rs_ret = None
    /\ result = <<>>
    /\ calls = <<>>
    /\ run_scripts = <<>>
    /\ launches = <<>>
    /\ confirms = <<>>
    /\ sleeps = <<>>
    /\ exit_code = None
    /\ invocations = <<>>
    /\ inbox_handler = None
    /\ watcher_loop = None
    /\ analysis = None
    /\ audit_exists = TRUE
    /\ writers = <<>>

\* HumanInTheLoop.is_sensitive(action) and HumanInTheLoop.confirm(action):
\* result collects what is_sensitive returned, confirms what confirm did.
Confirm ==
    /\ pc = "confirm"
    /\ \E action \in ActionLabels :
          LET c == confirm(action)
          IN  /\ result' = Append(result, [action |-> action,
                                           sensitive |-> is_sensitive(action)])
              /\ confirms' = Append(confirms,
                                    [call |-> 0, action |-> action,
                                     attempt |-> Len(confirms) + 1,
                                     prompted |-> c.prompted,
                                     confirmed |-> c.confirmed])
    /\ pc' = IF Len(confirms') >= MaxConfirms THEN "done" ELSE pc
    /\ UNCHANGED << config, outside, now, mtime, audit, tasks_processed, errors,
                    ralph_loop, messages, index, frame, rs, rs_ret, calls,
                    run_scripts, launches, sleeps >>

NextConfirm == Confirm

SpecConfirm == InitConfirm /\ [][NextConfirm]_vars

(***************************************************************************)
(* run() called more than once on one AIOrchestrator.  The counters are    *)
(* set in __init__ only; the Inbox files are read and left in place.       *)
(***************************************************************************)
MaxRuns == 2

InitRerun ==
    /\ AUTO_CONFIRM = TRUE
    /\ BASE_DIR = <<".">>
    /\ operator = "yes"
    /\ inbox \in Inboxes
    /\ entry = "run"
    /\ mtime = 0
    /\ now = 0
    /\ audit = Log(<<>>, 0, "ORCHESTRATOR_START",
                    [text |-> "Gold Tier AI Orchestrator initialized"], "INFO")
    /\ tasks_processed = 0
    /\ errors = 0
    /\ ralph_loop = NewLoop
    /\ pc = "start"
    /\ messages = <<>>
    /\ index = 0
    /\ frame = None
    /\ rs = None
    /\ rs_ret = None
    /\ result = None
    /\ calls = <<>>
    /\ run_scripts = <<>>
    /\ launches = <<>>
    /\ confirms = <<>>
    /\ sleeps = <<>>
    /\ exit_code = None
    /\ invocations = <<>>
    /\ inbox_handler = None
    /\ watcher_loop = None
    /\ analysis = None
    /\ audit_exists = TRUE
    /\ writers = <<>>

\* run() has returned and the caller calls it again on the same instance:
\* messages and the loop variable are locals of the new call, every
\* attribute of the instance is as the last call left it.
Run_Again ==
    /\ pc = "done"
    /\ Len(invocations) + 1 < MaxRuns
    /\ invocations' = Append(invocations,
                             [calls |-> Len(calls), result |-> result])
    /\ pc' = "start"
    /\ messages' = <<>>
    /\ index' = 0
    /\ result' = None
    /\ UNCHANGED << config, exit_code, audit_exists, writers, programs, now,
                    mtime, audit, tasks_processed, errors, ralph_loop, frame, rs,
                    rs_ret, calls, run_scripts, launches, confirms, sleeps >>

NextRerun ==
    \/ Run_Begin
    \/ ProcessMessage
    \/ NextIteration
    \/ RunScriptAttempt
    \/ Run_Finish
    \/ Run_Again

SpecRerun == InitRerun /\ [][NextRerun]_vars

(***************************************************************************)
(* AIOrchestrator.get_script_for_message called directly, on messages with *)
(* and without a source, for each message type.                            *)
(***************************************************************************)
ResolveSources ==
    { <<>>,
      <<"g","m","a","i","l">>,
      <<"G","m","a","i","l">>,
      <<"W","h","a","t","s","A","p","p">>,
      <<"w","h","a","t","s","a","p","p"," ","g","m","a","i","l">>,
      <<"s","m","s">>,
      <<"L","i","n","k","e","d","I","n">>,
      <<"f","a","c","e","b","o","o","k">>,
      <<"I","n","s","t","a","g","r","a","m">>,
      <<"t","w","i","t","t","e","r">>,
      <<"x">>,
      <<"f","a","x">>,
      <<"t","w","i","t","t","e","r"," ","l","i","n","k","e","d","i","n">>,
      <<"i","n","s","t","a","g","r","a","m"," ","f","a","c","e","b","o","o","k">>,
      <<"u","n","k","n","o","w","n","_","p","l","a","t","f","o","r","m">> }

ResolveMessages ==
    { <<>> } \cup { [source |-> s] : s \in ResolveSources }

MessageTypes == {"personal", "business", "unknown"}

InitResolve ==
    /\ AUTO_CONFIRM = TRUE
    /\ BASE_DIR \in BaseDirs
    /\ operator = "yes"
    /\ inbox = [exists |-> FALSE, files |-> <<>>]
    /\ entry = "get_script_for_message"
    /\ mtime = 0
    /\ now = 0
    /\ audit = <<>>
    /\ tasks_processed = 0
    /\ errors = 0
    /\ ralph_loop = NewLoop
    /\ pc = "resolve"
    /\ messages \in { << m >> : m \in ResolveMessages }
    /\ index = 1
    /\ frame \in { [msg_type |-> t] : t \in MessageTypes }
    /\ rs = None
    /\ rs_ret = None
    /\ result = <<>>
    /\ calls = <<>>
    /\ run_scripts = <<>>
    /\ launches = <<>>
    /\ confirms = <<>>
    /\ sleeps = <<>>
    /\ exit_code = None
    /\ invocations = <<>>
    /\ inbox_handler = None
    /\ watcher_loop = None
    /\ analysis = None
    /\ audit_exists = TRUE
    /\ writers = <<>>

\* get_script_for_message(message, msg_type): result collects the value
\* returned.
Resolve ==
    /\ pc = "resolve"
    /\ result' = Append(result,
                        get_script_for_message(messages[index], frame.msg_type))
    /\ pc' = "done"
    /\ UNCHANGED << config, outside, now, mtime, audit, tasks_processed, errors,
                    ralph_loop, messages, index, frame, rs, rs_ret, calls,
                    run_scripts, launches, confirms, sleeps >>

NextResolve == Resolve

SpecResolve == InitResolve /\ [][NextResolve]_vars

(***************************************************************************)
(* run() over inbox files that give their task an id, give it an empty id  *)
(* ("id": "", or null), or give none and leave it to be generated.         *)
(***************************************************************************)
TaskIdFiles ==
    { [valid |-> TRUE,
       json  |-> [id |-> <<"a">>, source |-> <<"g","m","a","i","l">>]],
      [valid |-> TRUE,
       json  |-> [id |-> NoneStr, source |-> <<"g","m","a","i","l">>]],
      [valid |-> TRUE,
       json  |-> [source |-> <<"L","i","n","k","e","d","I","n">>]] }

InitTaskIds ==
    /\ AUTO_CONFIRM = TRUE
    /\ BASE_DIR = <<".">>
    /\ operator = "yes"
    /\ inbox \in { [exists |-> TRUE, files |-> f] :
                     f \in UNION { [1..n -> TaskIdFiles] : n \in 1..MaxInbox } }
    /\ entry = "run"
    /\ mtime = 0
    /\ now = 0
    /\ audit = Log(<<>>, 0, "ORCHESTRATOR_START",
                    [text |-> "Gold Tier AI Orchestrator initialized"], "INFO")
    /\ tasks_processed = 0
    /\ errors = 0
    /\ ralph_loop = NewLoop
    /\ pc = "start"
    /\ messages = <<>>
    /\ index = 0
    /\ frame = None
    /\ rs = None
    /\ rs_ret = None
    /\ result = None
    /\ calls = <<>>
    /\ run_scripts = <<>>
    /\ launches = <<>>
    /\ confirms = <<>>
    /\ sleeps = <<>>
    /\ exit_code = None
    /\ invocations = <<>>
    /\ inbox_handler = None
    /\ watcher_loop = None
    /\ analysis = None
    /\ audit_exists = TRUE
    /\ writers = <<>>

SpecTaskIds == InitTaskIds /\ [][Next]_vars

(***************************************************************************)
(* The orchestrator at rest, while another program of the repository is    *)
(* looked at.                                                              *)
(***************************************************************************)
OrchestratorIdle ==
    /\ AUTO_CONFIRM = TRUE
    /\ BASE_DIR = <<".">>
    /\ operator = "yes"
    /\ inbox = [exists |-> FALSE, files |-> <<>>]
    /\ entry = "idle"
    /\ mtime = 0
    /\ now = 0
    /\ audit = <<>>
    /\ tasks_processed = 0
    /\ errors = 0
    /\ ralph_loop = NewLoop
    /\ pc = "idle"
    /\ messages = <<>>
    /\ index = 0
    /\ frame = None
    /\ rs = None
    /\ rs_ret = None
    /\ result = None
    /\ calls = <<>>
    /\ run_scripts = <<>>
    /\ launches = <<>>
    /\ confirms = <<>>
    /\ sleeps = <<>>
    /\ exit_code = None
    /\ invocations = <<>>
    /\ audit_exists = TRUE
    /\ writers = <<>>

(***************************************************************************)
(* Watchers/inbox_watcher.py: one Markdown file appears in the Inbox and   *)
(* is written; watchdog queues a created or modified event for each        *)
(* change, and the observer thread hands the events, in order, to          *)
(* InboxHandler.on_created and on_modified, which read the file as it is   *)
(* by then.  Times are in seconds.                                         *)
(***************************************************************************)
MaxWrites == 2
MaxRepeats == 1
MaxTicks == 2

\* How long the clock may advance in one step: within the 5 seconds of the
\* duplicate test, past them, past the 60 seconds of the cleanup.
Delays == {1, 5, 61}

\* InboxHandler._get_file_hash: the SHA-256 of the content, taken to be
\* different for different contents.
_get_file_hash(content) == << "sha256", content >>

\* InboxHandler._cleanup_old_entries(current_time), for the one file name.
_cleanup_old_entries(processed_files, current_time) ==
    IF processed_files # None /\ current_time - processed_files.time > 60
    THEN None ELSE processed_files

\* The "seen recently" test of on_created and on_modified.
Duplicate(processed_files, file_hash, current_time) ==
    /\ processed_files # None
    /\ file_hash = processed_files.hash
    /\ current_time - processed_files.time < 5

InitInboxHandler ==
    /\ OrchestratorIdle
    /\ watcher_loop = None
    /\ analysis = None
    /\ inbox_handler =
          [exists |-> FALSE,      \* the file is in the Inbox
           content |-> 0,         \* 0: empty; n: what the n-th write left
           settled |-> FALSE,     \* the file's author is done with it
           queue |-> <<>>,        \* events watchdog has not delivered yet
           processed_files |-> None,
           clock |-> 0,           \* time.time()
           writes |-> 0, repeats |-> 0, ticks |-> 0,
           triggers |-> <<>>]     \* history: _trigger_reasoning_workflow calls

\* The file is created, empty or with its first content already in it.
CreateFile ==
    /\ ~inbox_handler.exists
    /\ \E c \in {0, 1} :
          inbox_handler' = [inbox_handler EXCEPT
                               !.exists = TRUE, !.content = c,
                               !.writes = c,
                               !.queue = Append(@, "created")]
    /\ UNCHANGED << orchestrator, watcher_loop, analysis >>

\* The file is written: its content changes.
WriteFile ==
    /\ inbox_handler.exists
    /\ ~inbox_handler.settled
    /\ inbox_handler.writes < MaxWrites
    /\ inbox_handler' = [inbox_handler EXCEPT
                            !.content = inbox_handler.writes + 1,
                            !.writes = @ + 1,
                            !.queue = Append(@, "modified")]
    /\ UNCHANGED << orchestrator, watcher_loop, analysis >>

\* An event for the file as it is: a second notification of the same change.
RepeatEvent ==
    /\ inbox_handler.exists
    /\ ~inbox_handler.settled
    /\ inbox_handler.repeats < MaxRepeats
    /\ \E e \in {"created", "modified"} :
          inbox_handler' = [inbox_handler EXCEPT
                               !.repeats = @ + 1,
                               !.queue = Append(@, e)]
    /\ UNCHANGED << orchestrator, watcher_loop, analysis >>

\* The author is done: the file changes no more, no further event comes.
Settle ==
    /\ inbox_handler.exists
    /\ ~inbox_handler.settled
    /\ inbox_handler' = [inbox_handler EXCEPT !.settled = TRUE]
    /\ UNCHANGED << orchestrator, watcher_loop, analysis >>

\* Time passes.
Tick ==
    /\ inbox_handler.ticks < MaxTicks
    /\ \E d \in Delays :
          inbox_handler' = [inbox_handler EXCEPT !.clock = @ + d,
                                                 !.ticks = @ + 1]
    /\ UNCHANGED << orchestrator, watcher_loop, analysis >>

\* InboxHandler.on_created(event) for the event at the head of the queue.
on_created ==
    /\ inbox_handler.queue # <<>>
    /\ Head(inbox_handler.queue) = "created"
    /\ LET current_time == inbox_handler.clock
           cleaned   == _cleanup_old_entries(inbox_handler.processed_files,
                                             current_time)
           file_hash == _get_file_hash(inbox_handler.content)
           rest      == Tail(inbox_handler.queue)
       IN  IF inbox_handler.exists /\ inbox_handler.content = 0
           THEN \* st_size == 0: "likely still being written", return
                inbox_handler' = [inbox_handler EXCEPT
                                     !.queue = rest,
                                     !.processed_files = cleaned]
           ELSE IF Duplicate(cleaned, file_hash, current_time)
           THEN inbox_handler' = [inbox_handler EXCEPT
                                     !.queue = rest,
                                     !.processed_files = cleaned]
           ELSE inbox_handler' = [inbox_handler EXCEPT
                                     !.queue = rest,
                                     !.processed_files =
                                         [hash |-> file_hash,
                                          time |-> current_time],
                                     !.triggers =
                                         Append(@, [hash |-> file_hash,
                                                    time |-> current_time])]
    /\ UNCHANGED << orchestrator, watcher_loop, analysis >>

\* InboxHandler.on_modified(event) for the event at the head of the queue.
on_modified ==
    /\ inbox_handler.queue # <<>>
    /\ Head(inbox_handler.queue) = "modified"
    /\ LET current_time == inbox_handler.clock
           cleaned   == _cleanup_old_entries(inbox_handler.processed_files,
                                             current_time)
           file_hash == _get_file_hash(inbox_handler.content)
           rest      == Tail(inbox_handler.queue)
       IN  IF Duplicate(cleaned, file_hash, current_time)
           THEN inbox_handler' = [inbox_handler EXCEPT
                                     !.queue = rest,
                                     !.processed_files = cleaned]
           ELSE inbox_handler' = [inbox_handler EXCEPT
                                     !.queue = rest,
                                     !.processed_files =
                                         [hash |-> file_hash,
                                          time |-> current_time]]
    /\ UNCHANGED << orchestrator, watcher_loop, analysis >>

NextInboxHandler ==
    \/ CreateFile
    \/ WriteFile
    \/ RepeatEvent
    \/ Settle
    \/ Tick
    \/ on_created
    \/ on_modified

SpecInboxHandler == InitInboxHandler /\ [][NextInboxHandler]_vars

(***************************************************************************)
(* fb_ig_browser_watcher.py and twitter_browser_watcher.py (the same code  *)
(* in both): run_watcher_with_retry, called several times by main() with   *)
(* the one RalphWiggumLoop it constructs.                                  *)
(***************************************************************************)
WATCHER_MAX_RETRIES == 3
WATCHER_RETRY_DELAY == 2
MaxWatcherCalls == 2

\* What one call of check_func can do: return a list, return None, raise.
CheckOutcomes == {"items", "none", "raises"}

\* Mutant: reset() leaves the counter as it is.
reset_KeepsCounter(loop) == loop

\* RalphWiggumLoop.reset()
reset(loop) == [loop EXCEPT !.current_retry = 0]

\* RalphWiggumLoop.should_retry(): the value returned, the loop afterwards and
\* the argument of time.sleep (None: no sleep).
should_retry(loop) ==
    IF loop.current_retry < loop.max_retries
    THEN LET n == loop.current_retry + 1
         IN  [retry |-> TRUE,
              loop  |-> [loop EXCEPT !.current_retry = n],
              delay |-> WATCHER_RETRY_DELAY * (2 ^ (n - 1))]
    ELSE [retry |-> FALSE, loop |-> loop, delay |-> None]

InitWatcherRetry ==
    /\ OrchestratorIdle
    /\ inbox_handler = None
    /\ analysis = None
    /\ watcher_loop =
          [ralph_loop |-> [max_retries |-> WATCHER_MAX_RETRIES,
                           current_retry |-> 0],
           pc |-> "main",
           calls |-> <<>>]   \* history: one record per run_watcher_with_retry

\* main() calls run_watcher_with_retry(watcher, check_func, label,
\* ralph_loop): the reset, up to the head of `while True`.
CallWatcher ==
    /\ watcher_loop.pc = "main"
    /\ Len(watcher_loop.calls) < MaxWatcherCalls
    /\ watcher_loop' =
          [watcher_loop EXCEPT
              !.ralph_loop = reset(@),
              !.pc = "while",
              !.calls = Append(@, [entered_with |->
                                       watcher_loop.ralph_loop.current_retry,
                                   checks |-> <<>>, sleeps |-> <<>>,
                                   returned |-> "nothing yet"])]
    /\ UNCHANGED << orchestrator, inbox_handler, analysis >>

\* One pass through the body of `while True`: check_func is called; a list
\* is returned at once; otherwise should_retry sleeps and the loop goes on,
\* or refuses and [] is returned.
CheckOnce ==
    /\ watcher_loop.pc = "while"
    /\ \E outcome \in CheckOutcomes :
          LET k  == Len(watcher_loop.calls)
              sr == should_retry(watcher_loop.ralph_loop)
          IN  IF outcome = "items"
              THEN watcher_loop' =
                      [watcher_loop EXCEPT
                          !.pc = "main",
                          !.calls[k].checks = Append(@, outcome),
                          !.calls[k].returned = "items"]
              ELSE IF sr.retry
              THEN watcher_loop' =
                      [watcher_loop EXCEPT
                          !.ralph_loop = sr.loop,
                          !.calls[k].checks = Append(@, outcome),
                          !.calls[k].sleeps = Append(@, sr.delay)]
              ELSE watcher_loop' =
                      [watcher_loop EXCEPT
                          !.ralph_loop = sr.loop,
                          !.pc = "main",
                          !.calls[k].checks = Append(@, outcome),
                          !.calls[k].returned = "[]"]
    /\ UNCHANGED << orchestrator, inbox_handler, analysis >>

NextWatcherRetry ==
    \/ CallWatcher
    \/ CheckOnce

\* check_func returns or raises, and the loop's thread keeps running: a call
\* that is under way takes its next step.
SpecWatcherRetry ==
    InitWatcherRetry /\ [][NextWatcherRetry]_vars /\ WF_vars(CheckOnce)

(***************************************************************************)
(* weekly_audit.py: WeeklyAuditor.analyze_with_ralph_loop over the items   *)
(* read_vault found, with the module's own RalphWiggumLoop.                *)
(***************************************************************************)
MAX_ANALYSIS_ITERATIONS == 5
MaxVaultItems == 2

\* What one call of categorize_items can do.
CategorizeOutcomes == {"ok", "raises"}

\* RalphWiggumLoop.start() of weekly_audit.py
analysis_start(loop) ==
    [loop EXCEPT !.current_iteration = 0, !.status = "in_progress"]

\* RalphWiggumLoop.next_iteration() of weekly_audit.py: the value returned
\* and the loop afterwards.
analysis_next_iteration(loop) ==
    LET n == loop.current_iteration + 1
    IN  IF n > loop.max_iterations
        THEN [continue |-> FALSE,
              loop |-> [loop EXCEPT !.current_iteration = n,
                                    !.status = "failed"]]
        ELSE [continue |-> TRUE,
              loop |-> [loop EXCEPT !.current_iteration = n]]

\* RalphWiggumLoop.complete() of weekly_audit.py
analysis_complete(loop) == [loop EXCEPT !.status = "complete"]

\* RalphWiggumLoop.fail() of weekly_audit.py
analysis_fail(loop) == [loop EXCEPT !.status = "failed"]

\* WeeklyAuditor() has been constructed and read_vault() has filled
\* audit_data (the number of items of each directory).
InitAnalysis ==
    /\ OrchestratorIdle
    /\ inbox_handler = None
    /\ watcher_loop = None
    /\ analysis \in
          { [ralph_loop |-> [max_iterations |-> MAX_ANALYSIS_ITERATIONS,
                             current_iteration |-> 0, status |-> "pending"],
             audit_data |-> [inbox |-> i, needs_action |-> n, done |-> d],
             pc |-> "analyze",
             attempts |-> <<>>]   \* history: the categorize_items calls
            : i \in 0..MaxVaultItems, n \in 0..MaxVaultItems,
              d \in 0..MaxVaultItems }

\* analyze_with_ralph_loop(): up to the head of the while loop.
AnalyzeBegin ==
    /\ analysis.pc = "analyze"
    /\ analysis' = [analysis EXCEPT !.ralph_loop = analysis_start(@),
                                    !.pc = "while"]
    /\ UNCHANGED << orchestrator, inbox_handler, watcher_loop >>

\* One evaluation of the while condition and, if it lets the loop go on, one
\* pass through the body: no items, a successful categorization, or an
\* exception and its handler.
AnalyzePass ==
    /\ analysis.pc = "while"
    /\ LET nx == analysis_next_iteration(analysis.ralph_loop)
           all_items == analysis.audit_data.inbox
                          + analysis.audit_data.needs_action
                          + analysis.audit_data.done
       IN  IF ~nx.continue
           THEN analysis' = [analysis EXCEPT !.ralph_loop = nx.loop,
                                             !.pc = "returned"]
           ELSE IF all_items = 0
           THEN \* "No items to analyze": break
                analysis' = [analysis EXCEPT !.ralph_loop = nx.loop,
                                             !.pc = "returned"]
           ELSE \E outcome \in CategorizeOutcomes :
                  IF outcome = "ok"
                  THEN analysis' =
                          [analysis EXCEPT
                              !.ralph_loop = analysis_complete(nx.loop),
                              !.attempts = Append(@, outcome),
                              !.pc = "returned"]
                  ELSE LET again == analysis_next_iteration(nx.loop)
                       IN  analysis' =
                              [analysis EXCEPT
                                  !.ralph_loop =
                                      IF again.continue THEN again.loop
                                      ELSE analysis_fail(again.loop),
                                  !.attempts = Append(@, outcome)]
    /\ UNCHANGED << orchestrator, inbox_handler, watcher_loop >>

NextAnalysis ==
    \/ AnalyzeBegin
    \/ AnalyzePass

SpecAnalysis == InitAnalysis /\ [][NextAnalysis]_vars

(***************************************************************************)
(* Audit_Log.md written by three processes: the orchestrator's AuditLogger *)
(* (ai_orchestrator.py), the audit server's handle_audit (audit_mcp.py)    *)
(* and the weekly audit's log_audit (weekly_audit.py).  Each tests whether *)
(* the file exists, creates it with open(.., 'w') and a header if the test *)
(* said no, and appends its entry with open(.., 'a').  The AuditLogger     *)
(* tests once, in its constructor; the other two before every entry.       *)
(***************************************************************************)
\* Entries each writer appends.
MaxAppends == 2

Writers == { "orchestrator", "audit_mcp", "weekly_audit" }

\* The entry a writer appends: AuditLogger.log, handle_audit's audit_entry,
\* log_audit's log_entry.
WriterEntry(p, t) ==
    CASE p = "orchestrator" ->
             [entry |-> "EVENT", timestamp |-> t, status |-> "INFO",
              event_type |-> "ORCHESTRATOR_START",
              details |-> [text |-> "Gold Tier AI Orchestrator initialized"]]
      [] p = "audit_mcp"    -> [entry |-> "AUDIT", timestamp |-> t]
      [] p = "weekly_audit" -> [entry |-> "WEEKLY_AUDIT", timestamp |-> t]

\* The three processes are about to write; the file may or may not exist.
InitAuditFile ==
    /\ AUTO_CONFIRM = FALSE
    /\ BASE_DIR = <<".">>
    /\ operator = "yes"
    /\ inbox = [exists |-> FALSE, files |-> <<>>]
    /\ entry = "audit_file"
    /\ mtime = 0
    /\ now = 0
    /\ audit = <<>>
    /\ tasks_processed = 0
    /\ errors = 0
    /\ ralph_loop = NewLoop
    /\ pc = "writers"
    /\ messages = <<>>
    /\ index = 0
    /\ frame = None
    /\ rs = None
    /\ rs_ret = None
    /\ result = None
    /\ calls = <<>>
    /\ run_scripts = <<>>
    /\ launches = <<>>
    /\ confirms = <<>>
    /\ sleeps = <<>>
    /\ exit_code = None
    /\ invocations = <<>>
    /\ inbox_handler = None
    /\ watcher_loop = None
    /\ analysis = None
    /\ audit_exists \in BOOLEAN
    /\ writers = [p \in Writers |-> [pc |-> "exists", appended |-> 0]]

\* `if not AUDIT_LOG_FILE.exists()`
TestExists ==
    /\ \E p \in DOMAIN writers :
          /\ writers[p].pc = "exists"
          /\ writers' = [writers EXCEPT
                            ![p].pc = IF audit_exists THEN "append" ELSE "create"]
    /\ UNCHANGED << audit, audit_exists >>
    /\ UNCHANGED << config, now, mtime, tasks_processed, errors, ralph_loop, pc,
                    messages, index, frame, rs, rs_ret, result, calls,
                    run_scripts, launches, confirms, sleeps, exit_code,
                    invocations, programs >>

\* `with open(AUDIT_LOG_FILE, 'w') as f: f.write(header)`: the file is
\* created, or truncated if it exists by now, and holds the header only.
CreateWithHeader ==
    /\ \E p \in DOMAIN writers :
          /\ writers[p].pc = "create"
          /\ writers' = [writers EXCEPT ![p].pc = "append"]
    /\ audit' = <<>>
    /\ audit_exists' = TRUE
    /\ UNCHANGED << config, now, mtime, tasks_processed, errors, ralph_loop, pc,
                    messages, index, frame, rs, rs_ret, result, calls,
                    run_scripts, launches, confirms, sleeps, exit_code,
                    invocations, programs >>

\* `with open(AUDIT_LOG_FILE, 'a') as f: f.write(entry)`.  Then the
\* AuditLogger goes on to its next log call, the others to their next test.
AppendByWriter ==
    /\ \E p \in DOMAIN writers :
          /\ writers[p].pc = "append"
          /\ audit' = AppendEntry(audit, WriterEntry(p, now))
          /\ writers' = [writers EXCEPT
                            ![p].appended = @ + 1,
                            ![p].pc = IF writers[p].appended + 1 >= MaxAppends
                                      THEN "done"
                                      ELSE IF p = "orchestrator" THEN "append"
                                      ELSE "exists"]
    /\ audit_exists' = TRUE
    /\ UNCHANGED << config, now, mtime, tasks_processed, errors, ralph_loop, pc,
                    messages, index, frame, rs, rs_ret, result, calls,
                    run_scripts, launches, confirms, sleeps, exit_code,
                    invocations, programs >>

NextAuditFile ==
    \/ TestExists
    \/ CreateWithHeader
    \/ AppendByWriter

SpecAuditFile == InitAuditFile /\ [][NextAuditFile]_vars

(***************************************************************************)
(* One logging call of AuditLogger at the grain of its f.write calls, and  *)
(* a KeyboardInterrupt.  Each logging method opens the file with           *)
(* `with open(.., 'a') as f` and builds its entry by several f.write calls *)
(* into the file object's buffer; leaving the with block, normally or by   *)
(* an exception, closes the file, and the close flushes what the buffer    *)
(* holds in one write at the end of the file.                              *)
(***************************************************************************)
\* Logging calls the orchestrator makes one after the other.
MaxLogCalls == 2

\* Number of f.write calls that make up the entry e.
WritesOf(e) ==
    CASE e.entry = "EVENT"          -> 3
      [] e.entry = "TASK"           -> IF e.details = [text |-> ""] THEN 5 ELSE 6
      [] e.entry = "ERROR"          -> 5
      [] e.entry = "HUMAN_DECISION" -> 4
      [] e.entry = "WEEKLY_SUMMARY" -> 6

\* The entries of the logging calls explored, one per logging method.
LoggedEntries ==
    LET id == <<"a">>
    IN  { Log(<<>>, now, "MESSAGE_CLASSIFIED", [Task |-> id, Type |-> "personal"],
              "INFO")[1],
          log_task(<<>>, now, id, "PROCESS", "personal", "SUCCESS",
                   [text |-> "details"])[1],
          log_error(<<>>, now, id, "Script timed out", 1, MAX_RETRIES)[1],
          log_human_decision(<<>>, now, id, "script_execution", FALSE)[1],
          weekly_audit_summary(<<>>, now, 1, 0, [num |-> 100, den |-> 1])[1] }

\* What the file gets when the file object is closed after `written` of the
\* f.write calls of entry e: nothing, the entry, or its first lines only.
Flushed(a, e, written) ==
    IF written = 0 THEN a
    ELSE IF written = WritesOf(e) THEN AppendEntry(a, e)
    ELSE Append(a, [entry |-> "PARTIAL", of |-> e, written |-> written])

\* The orchestrator is running, between two logging calls.
InitInterrupt ==
    /\ AUTO_CONFIRM = FALSE
    /\ BASE_DIR = <<".">>
    /\ operator = "yes"
    /\ inbox = [exists |-> FALSE, files |-> <<>>]
    /\ entry = "logging"
    /\ mtime = 0
    /\ now = 0
    /\ audit = Log(<<>>, 0, "ORCHESTRATOR_START",
                    [text |-> "Gold Tier AI Orchestrator initialized"], "INFO")
    /\ tasks_processed = 0
    /\ errors = 0
    /\ ralph_loop = NewLoop
    /\ pc = "running"
    /\ messages = <<>>
    /\ index = 0
    /\ frame = None
    /\ rs = None
    /\ rs_ret = None
    /\ result = None
    /\ calls = <<>>
    /\ run_scripts = <<>>
    /\ launches = <<>>
    /\ confirms = <<>>
    /\ sleeps = <<>>
    /\ exit_code = None
    /\ invocations = <<>>
    /\ inbox_handler = None
    /\ watcher_loop = None
    /\ analysis = None
    /\ audit_exists = TRUE
    /\ writers = [orchestrator |-> [pc |-> "idle", logged |-> 0]]

\* A logging method is entered: `with open(self.audit_log_path, 'a') as f`.
OpenForAppend ==
    /\ pc = "running"
    /\ writers.orchestrator.pc = "idle"
    /\ writers.orchestrator.logged < MaxLogCalls
    /\ \E e \in LoggedEntries :
          writers' = [orchestrator |->
                         [pc |-> "open", logged |-> writers.orchestrator.logged,
                          e |-> e, written |-> 0]]
    /\ UNCHANGED << audit, audit_exists, pc >>
    /\ UNCHANGED << config, now, mtime, tasks_processed, errors, ralph_loop,
                    messages, index, frame, rs, rs_ret, result, calls,
                    run_scripts, launches, confirms, sleeps, exit_code,
                    invocations, programs >>

\* The next f.write of the entry: into the buffer.
WritePart ==
    /\ pc = "running"
    /\ writers.orchestrator.pc = "open"
    /\ writers.orchestrator.written < WritesOf(writers.orchestrator.e)
    /\ writers' = [writers EXCEPT !.orchestrator.written = @ + 1]
    /\ UNCHANGED << audit, audit_exists, pc >>
    /\ UNCHANGED << config, now, mtime, tasks_processed, errors, ralph_loop,
                    messages, index, frame, rs, rs_ret, result, calls,
                    run_scripts, launches, confirms, sleeps, exit_code,
                    invocations, programs >>

\* The with block ends: the file is closed and the buffer flushed.
CloseFile ==
    /\ pc = "running"
    /\ writers.orchestrator.pc = "open"
    /\ writers.orchestrator.written = WritesOf(writers.orchestrator.e)
    /\ audit' = Flushed(audit, writers.orchestrator.e, writers.orchestrator.written)
    /\ writers' = [orchestrator |->
                      [pc |-> "idle", logged |-> writers.orchestrator.logged + 1]]
    /\ UNCHANGED << audit_exists, pc >>
    /\ UNCHANGED << config, now, mtime, tasks_processed, errors, ralph_loop,
                    messages, index, frame, rs, rs_ret, result, calls,
                    run_scripts, launches, confirms, sleeps, exit_code,
                    invocations, programs >>

\* Ctrl-C: KeyboardInterrupt is raised in the main thread between two
\* bytecode instructions.  Nothing in the orchestrator catches it; on its
\* way out it leaves the with block, if one is open, which closes the file.
KeyboardInterrupt ==
    /\ pc = "running"
    /\ audit' = IF writers.orchestrator.pc = "open"
                THEN Flushed(audit, writers.orchestrator.e,
                             writers.orchestrator.written)
                ELSE audit
    /\ writers' = [orchestrator |->
                      [pc |-> "idle", logged |-> writers.orchestrator.logged]]
    /\ pc' = "interrupted"
    /\ UNCHANGED << audit_exists >>
    /\ UNCHANGED << config, now, mtime, tasks_processed, errors, ralph_loop,
                    messages, index, frame, rs, rs_ret, result, calls,
                    run_scripts, launches, confirms, sleeps, exit_code,
                    invocations, programs >>

NextInterrupt ==
    \/ OpenForAppend
    \/ WritePart
    \/ CloseFile
    \/ KeyboardInterrupt

SpecInterrupt == InitInterrupt /\ [][NextInterrupt]_vars

(***************************************************************************)
(* Vocabulary of the properties below, over the history variables.         *)
(***************************************************************************)
\* Number of run_script calls made during the k-th process_message call.
RunScriptsOf(k) == Cardinality({i \in 1..Len(run_scripts) : run_scripts[i].call = k})

\* The k-th process_message call has returned.
Terminal(k) == calls[k].outcome # "running"

\* The audit entries written during the k-th process_message call, once it
\* has returned: their positions in the file.
WrittenBy(k) == (calls[k].audit0 + 1)..(calls[k].audit1)

\* The audit entry e names the task id.
Names(e, id) ==
    IF e.entry \in {"TASK", "ERROR", "HUMAN_DECISION"} THEN e.task_id = id
    ELSE IF e.entry = "EVENT"
    THEN "Task" \in DOMAIN e.details /\ e.details.Task = id
    ELSE FALSE

\* The script path makes run_script consult the approval gate.
SensitivePath(p) ==
    Contains(Lower(p), <<"l","o","g","i","n">>) \/ Contains(Lower(p), <<"p","o","s","t","e","r">>)

\* The script path run_script got during the k-th process_message call
\* (k = 0: in the direct call).
ScriptOf(k) == IF k = 0 THEN frame.script_path ELSE calls[k].script_path

\* run_script returned its denial result.
DenialReturned == rs_ret # None /\ rs_ret.output = "Human denied execution"

(***************************************************************************)
(* C1.  A handler that fails at every attempt, in any mix of non-zero      *)
(* exits, timeouts and launch exceptions, and no denial: one run_script    *)
(* call never makes more than MAX_RETRIES subprocess invocations, and when *)
(* it has returned it has made exactly MAX_RETRIES of them and returned    *)
(* success = False with the retry count MAX_RETRIES.                       *)
(***************************************************************************)
C1_ExactlyMaxRetries ==
    LET allFail == \A i \in 1..Len(launches) : launches[i].outcome # "ok"
    IN  allFail =>
          /\ Len(launches) <= MAX_RETRIES
          /\ (pc = "done" /\ ~DenialReturned) =>
                /\ Len(launches) = MAX_RETRIES
                /\ \A i \in 1..MAX_RETRIES : launches[i].attempt = i
                /\ rs_ret.success = FALSE
                /\ rs_ret.retries = MAX_RETRIES

\* A returned call whose three attempts failed in three different ways.
C1_Witness ==
    /\ pc = "done"
    /\ Len(launches) = MAX_RETRIES
    /\ {launches[i].outcome : i \in 1..Len(launches)} = {"exit", "timeout", "exception"}
    /\ rs_ret.success = FALSE

(***************************************************************************)
(* C2.  A task with a resolved handler that always fails: process_message  *)
(* ends with the loop Failed after exactly max_iterations invocations of   *)
(* run_script.                                                             *)
(***************************************************************************)
C2_ExactlyMaxIterations ==
    \A k \in 1..Len(calls) :
        calls[k].outcome = "exhausted" =>
            /\ calls[k].loop1.task_status = "failed"
            /\ RunScriptsOf(k) = calls[k].loop1.max_iterations

C4_SensitiveNeedsApproval ==
    ~AUTO_CONFIRM =>
        /\ \A i \in 1..Len(launches) :
              SensitivePath(ScriptOf(launches[i].call)) =>
                  \E j \in 1..Len(confirms) :
                      /\ confirms[j].call = launches[i].call
                      /\ confirms[j].attempt = launches[i].attempt
                      /\ confirms[j].prompted
                      /\ confirms[j].confirmed
        /\ ( /\ ~Approves(operator)
             /\ pc = "done"
             /\ SensitivePath(ScriptOf(0)) )
           => /\ DenialReturned
              /\ Len(launches) = 0
              /\ Cardinality({i \in 1..Len(audit) :
                                 /\ audit[i].entry = "HUMAN_DECISION"
                                 /\ audit[i].decision = "DENIED"}) = 1

(***************************************************************************)
(* C5.  With auto-confirm off, process_message prompts the operator before *)
(* it classifies or runs a task; when the operator answers no the task     *)
(* ends denied, with errors incremented by 1, one DENIED human-decision    *)
(* entry and no handler invocation.                                        *)
(***************************************************************************)
C5_OperatorConfirmsTask ==
    ~AUTO_CONFIRM =>
        \A k \in 1..Len(calls) :
            /\ \E j \in 1..Len(confirms) :
                  /\ confirms[j].call = k
                  /\ confirms[j].attempt = 0
                  /\ confirms[j].prompted
            /\ ~Approves(operator) =>
                  /\ calls[k].outcome = "denied"
                  /\ calls[k].errors1 = calls[k].errors0 + 1
                  /\ LaunchesOf(k) = 0
                  /\ Cardinality({i \in WrittenBy(k) :
                                     /\ audit[i].entry = "HUMAN_DECISION"
                                     /\ audit[i].decision = "DENIED"}) = 1

(***************************************************************************)
(* C6.  Every decision HumanInTheLoop.confirm returns, approvals and       *)
(* automatic approvals included, has an audit entry of its own that        *)
(* carries the action label.                                               *)
(***************************************************************************)
C6_EveryDecisionAudited ==
    \A label \in {confirms[j].action : j \in 1..Len(confirms)} :
        Cardinality({i \in 1..Len(audit) :
                        audit[i].entry = "HUMAN_DECISION" /\ audit[i].action = label})
        >= Cardinality({j \in 1..Len(confirms) : confirms[j].action = label})

(***************************************************************************)
(* C7.  Every process_message call that has returned, whatever its         *)
(* outcome, wrote at least one audit entry that names the task's id before *)
(* it returned.                                                            *)
(***************************************************************************)
C7_TerminalOutcomeAudited ==
    \A k \in 1..Len(calls) :
        Terminal(k) =>
            \E i \in WrittenBy(k) :
                i <= Len(audit) /\ Names(audit[i], calls[k].task_id)

\* A run in which a task succeeded, and then a task without a handler failed.
C7_Witness ==
    /\ Len(calls) = 2
    /\ calls[1].outcome = "success"
    /\ calls[2].outcome = "no_handler"
    /\ pc = "done"

(***************************************************************************)
(* C8.  Each process_message call increments exactly one of                *)
(* tasks_processed (on success) and errors (otherwise) by exactly 1 and    *)
(* leaves the other unchanged, and neither changes while the call runs;    *)
(* hence run() returns processed + errors = number of messages read.       *)
(***************************************************************************)
C8_ExactlyOneCounter ==
    /\ \A k \in 1..Len(calls) :
          IF ~Terminal(k)
          THEN /\ tasks_processed = calls[k].processed0
               /\ errors = calls[k].errors0
          ELSE IF calls[k].outcome = "success"
          THEN /\ calls[k].processed1 = calls[k].processed0 + 1
               /\ calls[k].errors1 = calls[k].errors0
          ELSE /\ calls[k].processed1 = calls[k].processed0
               /\ calls[k].errors1 = calls[k].errors0 + 1
    /\ pc = "done" =>
          /\ result.processed + result.errors = Len(messages)
          /\ result.processed =
                 Cardinality({k \in 1..Len(calls) : calls[k].outcome = "success"})

\* run() has returned one processed task and one error.
C8_Witness ==
    /\ pc = "done"
    /\ result.processed = 1
    /\ result.errors = 1

(***************************************************************************)
(* C9.  run() calls process_message once per message read, in the order    *)
(* read and one at a time, whatever the earlier outcomes: the calls made   *)
(* so far are the leading messages, only the last can still be running,    *)
(* handler runs are grouped by task in that order, and when run() has      *)
(* returned every message has had its call.                                *)
(***************************************************************************)
C9_OneAtATimeInOrder ==
    /\ Len(calls) <= Len(messages)
    /\ \A k \in 1..Len(calls) : calls[k].file = messages[k]["_file"]
    /\ \A k \in 1..(Len(calls) - 1) : Terminal(k)
    /\ pc \in {"while", "attempt"} =>
          Len(calls) > 0 /\ ~Terminal(Len(calls))
    /\ \A i \in 1..(Len(launches) - 1) :
          launches[i].call <= launches[i + 1].call
    /\ pc = "done" =>
          /\ Len(calls) = Len(messages)
          /\ \A k \in 1..Len(calls) : Terminal(k)

\* The first task exhausted its loop, and the second was still processed.
C9_Witness ==
    /\ pc = "done"
    /\ Len(calls) = 2
    /\ calls[1].outcome = "exhausted"
    /\ calls[2].outcome = "success"
    /\ LaunchesOf(2) > 0

(***************************************************************************)
(* C10.  A task with no resolvable handler (the mapping resolves none      *)
(* exactly for a message classified unknown) fails at once: no handler     *)
(* invocation, no run_script call, the completion loop is left untouched,  *)
(* one FAILED task entry is written, errors grows by 1, and the message    *)
(* gets no second call.                                                    *)
(***************************************************************************)
C10_NoHandlerImmediate ==
    \A k \in 1..Len(calls) :
        classify(messages[k]) = "unknown" =>
            /\ calls[k].outcome = "no_handler"
            /\ LaunchesOf(k) = 0
            /\ RunScriptsOf(k) = 0
            /\ calls[k].loop1 = calls[k].loop0
            /\ \A i \in WrittenBy(k) :
                  ~(audit[i].entry = "EVENT" /\ audit[i].event_type = "RALPH_WIGGUM_START")
            /\ Cardinality({i \in WrittenBy(k) :
                               /\ audit[i].entry = "TASK"
                               /\ audit[i].task_id = calls[k].task_id
                               /\ audit[i].status = "FAILED"}) = 1
            /\ calls[k].errors1 = calls[k].errors0 + 1
            /\ calls[k].processed1 = calls[k].processed0
            /\ Cardinality({j \in 1..Len(calls) : calls[j].file = calls[k].file}) = 1

\* A task without a handler, processed after a task ran through the loop.
C10_Witness ==
    /\ Len(calls) = 2
    /\ calls[1].outcome = "exhausted"
    /\ calls[2].outcome = "no_handler"
    /\ classify(messages[2]) = "unknown"
    /\ calls[2].loop1.task_status = "failed"

(***************************************************************************)
(* C11.  A task classified unknown is routed to a default handler and      *)
(* driven through the completion loop like any other task: a script is     *)
(* resolved for it, it does not end for want of a handler, and when its    *)
(* call has returned run_script was called for it at least once.           *)
(***************************************************************************)
C11_UnknownRoutedToDefault ==
    \A k \in 1..Len(calls) :
        classify(messages[k]) = "unknown" =>
            /\ Truthy(calls[k].script_path)
            /\ calls[k].outcome # "no_handler"
            /\ Terminal(k) => RunScriptsOf(k) >= 1

\* The handler invocations of the k-th process_message call were n failures
\* followed by one success.
FailsThenSucceeds(k, n) ==
    LET idx == {i \in 1..Len(launches) : launches[i].call = k}
    IN  /\ Cardinality(idx) = n + 1
        /\ \A i \in idx :
              LET pos == Cardinality({j \in idx : j <= i})
              IN  IF pos <= n THEN launches[i].outcome # "ok"
                  ELSE launches[i].outcome = "ok"

\* The handler-error entries written during the k-th process_message call,
\* in file order.
ErrorEntries(k) ==
    LET IsError(e) == e.entry = "ERROR"
    IN  SelectSeq(SubSeq(audit, calls[k].audit0 + 1, calls[k].audit1), IsError)

(***************************************************************************)
(* C12.  A handler that fails on its first n attempts (1 <= n <            *)
(* MAX_RETRIES) and then succeeds: process_message writes exactly n        *)
(* handler-error entries, numbered 1..n and each marked Retrying, completes*)
(* the task in the first outer iteration, increments tasks_processed by 1  *)
(* and leaves errors unchanged; a run over that single message returns     *)
(* processed = 1, errors = 0.                                              *)
(***************************************************************************)
C12_FailThenSucceed ==
    \A k \in 1..Len(calls) : \A n \in 1..(MAX_RETRIES - 1) :
        (Terminal(k) /\ FailsThenSucceeds(k, n)) =>
            LET errs == ErrorEntries(k)
            IN  /\ Len(errs) = n
                /\ \A j \in 1..Len(errs) :
                      /\ errs[j].attempt = j
                      /\ errs[j].max_attempts = MAX_RETRIES
                      /\ errs[j].action = "Retrying"
                      /\ errs[j].task_id = calls[k].task_id
                /\ calls[k].outcome = "success"
                /\ RunScriptsOf(k) = 1
                /\ calls[k].loop1.current_iteration = 1
                /\ calls[k].loop1.task_status = "complete"
                /\ calls[k].processed1 = calls[k].processed0 + 1
                /\ calls[k].errors1 = calls[k].errors0
                /\ (pc = "done" /\ Len(messages) = 1) =>
                      result.processed = 1 /\ result.errors = 0

\* A run over two LinkedIn messages: the handler succeeded on attempt 2 for
\* the first and on attempt 3 for the second.
C12_Witness ==
    /\ pc = "done"
    /\ Len(calls) = 2
    /\ classify(messages[1]) = "business"
    /\ FailsThenSucceeds(1, 1)
    /\ FailsThenSucceeds(2, 2)
    /\ result.processed = 2
    /\ result.errors = 0

\* Sum of a sequence of numbers.
RECURSIVE Sum(_)
Sum(s) == IF s = <<>> THEN 0 ELSE Head(s) + Sum(Tail(s))

(***************************************************************************)
(* C13.  Within one run_script call the n-th failed attempt (n <           *)
(* MAX_RETRIES) is followed by one sleep of RETRY_DELAY * 2^(n-1) seconds  *)
(* (RETRY_DELAY before attempt 2, 2 * RETRY_DELAY before attempt 3); no    *)
(* sleep follows the final failed attempt or a successful attempt, and the *)
(* clock advances by the sleeps (and the timeouts waited for) only.        *)
(***************************************************************************)
C13_BackoffDoubles ==
    LET failed   == Cardinality({i \in 1..Len(launches) : launches[i].outcome # "ok"})
        timeouts == Cardinality({i \in 1..Len(launches) : launches[i].outcome = "timeout"})
    IN  /\ Len(sleeps) = IF failed < MAX_RETRIES THEN failed ELSE MAX_RETRIES - 1
        /\ \A n \in 1..Len(sleeps) : sleeps[n] = RETRY_DELAY * (2 ^ (n - 1))
        /\ Len(sleeps) >= 1 => sleeps[1] = RETRY_DELAY
        /\ Len(sleeps) >= 2 => sleeps[2] = 2 * RETRY_DELAY
        /\ now = Sum(sleeps) + timeouts * DEFAULT_TIMEOUT

\* run_script has returned after three failed attempts and two sleeps.
C13_Witness ==
    /\ pc = "done"
    /\ Len(launches) = MAX_RETRIES
    /\ launches[MAX_RETRIES].outcome # "ok"
    /\ sleeps = << RETRY_DELAY, 2 * RETRY_DELAY >>

IsPrefix(a, b) == Len(a) <= Len(b) /\ SubSeq(b, 1, Len(a)) = a

\* The file b is the file a with one entry added at its end.
AppendsOne(a, b) == Len(b) = Len(a) + 1 /\ IsPrefix(a, b)

\* Each logging call of AuditLogger, made on the audit file as it is now,
\* adds one entry at the end.
EveryLoggingCallAppendsOne ==
    LET id == <<"a">>
    IN  /\ AppendsOne(audit, Log(audit, now, "EVENT_TYPE", [text |-> "details"], "INFO"))
        /\ AppendsOne(audit, log_task(audit, now, id, "PROCESS", "business", "SUCCESS",
                                      [text |-> "details"]))
        /\ AppendsOne(audit, log_error(audit, now, id, "Script timed out", 1, MAX_RETRIES))
        /\ AppendsOne(audit, log_human_decision(audit, now, id, "script_execution", FALSE))
        /\ AppendsOne(audit, weekly_audit_summary(audit, now, tasks_processed, errors,
                                                  [num |-> 100, den |-> 1]))

\* The entries are in the order of the calls that wrote them: timestamps
\* never decrease, and the entries of the process_message calls follow one
\* another in processing order, each naming its task.
EntriesInCallOrder ==
    /\ \A i \in 1..(Len(audit) - 1) : audit[i].timestamp <= audit[i + 1].timestamp
    /\ \A k \in 1..Len(calls) :
          /\ calls[k].audit0 <= Len(audit)
          /\ Terminal(k) =>
                /\ calls[k].audit0 <= calls[k].audit1
                /\ calls[k].audit1 <= Len(audit)
                /\ \A i \in WrittenBy(k) : Names(audit[i], calls[k].task_id)
                /\ k < Len(calls) => calls[k + 1].audit0 = calls[k].audit1

(***************************************************************************)
(* C15.  The audit trail is append-only: every step of the orchestrator    *)
(* leaves the entries already in the file unchanged and in place, every    *)
(* AuditLogger logging call adds exactly one entry at the end, and the     *)
(* order of the entries is the order of the calls and, across tasks, the   *)
(* processing order.                                                       *)
(***************************************************************************)
C15_AppendOnly ==
    /\ [][IsPrefix(audit, audit')]_vars
    /\ [](EveryLoggingCallAppendsOne /\ EntriesInCallOrder)

\* run() has returned after the weekly trigger and two tasks, of which the
\* first left handler-error entries.
C15_Witness ==
    /\ pc = "done"
    /\ Len(calls) = 2
    /\ \E i \in 1..Len(audit) :
          audit[i].entry = "EVENT" /\ audit[i].event_type = "WEEKLY_AUDIT_TRIGGER"
    /\ \E i \in WrittenBy(1) : audit[i].entry = "ERROR"
    /\ \E i \in WrittenBy(2) : audit[i].entry = "TASK"

\* The entries of writer p in the audit file.
EntriesOf(p) ==
    {i \in 1..Len(audit) : audit[i].entry = WriterEntry(p, audit[i].timestamp).entry}

(***************************************************************************)
(* C16.  With the orchestrator's AuditLogger, the audit server and the     *)
(* weekly audit writing the same Audit_Log.md concurrently, no appended    *)
(* entry is ever lost or overwritten: in every interleaving the file holds *)
(* every entry each writer has appended so far.                            *)
(***************************************************************************)
C16_NoAppendedEntryLost ==
    \A p \in DOMAIN writers :
        Cardinality(EntriesOf(p)) = writers[p].appended

\* The audit entry is one a logging method writes, whole.
WellFormed(e) ==
    e.entry \in {"EVENT", "TASK", "ERROR", "HUMAN_DECISION", "WEEKLY_SUMMARY"}

(***************************************************************************)
(* C17.  After an interrupt that arrives at any point of the run, the      *)
(* audit file consists of complete, well-formed entries only: no entry is  *)
(* left partially written.                                                 *)
(***************************************************************************)
C17_InterruptLeavesWholeEntries ==
    pc = "interrupted" => \A i \in 1..Len(audit) : WellFormed(audit[i])

(***************************************************************************)
(* C18.  run() reports success_rate = processed / (processed + errors) *   *)
(* 100 when processed + errors > 0 and 100 when no task was processed;     *)
(* processed = 7, errors = 3 gives 70; the value lies in [0, 100].         *)
(***************************************************************************)
C18_SuccessRate ==
    pc = "done" =>
        LET r == result.success_rate
            p == result.processed
            e == result.errors
        IN  /\ p = tasks_processed
            /\ e = errors
            /\ r.den > 0
            /\ p + e > 0 => r.num * (p + e) = p * 100 * r.den
            /\ p + e = 0 => r.num = 100 * r.den
            /\ (p = 7 /\ e = 3) => r.num = 70 * r.den
            /\ 0 <= r.num
            /\ r.num <= 100 * r.den

\* run() has returned with 7 tasks processed and 3 errors.
C18_Witness ==
    /\ pc = "done"
    /\ result.processed = 7
    /\ result.errors = 3
    /\ result.success_rate.num = 70 * result.success_rate.den

(***************************************************************************)
(* C19.  The orchestrator's entry point exits with code 0 if and only if   *)
(* the run's error count is 0 (every message read was processed            *)
(* successfully), and with code 1 otherwise; an empty inbox gives 0.       *)
(***************************************************************************)
C19_ExitCode ==
    IF pc = "exited"
    THEN /\ exit_code \in {0, 1}
         /\ exit_code = 0 <=> errors = 0
         /\ exit_code = 0 <=> \A k \in 1..Len(calls) : calls[k].outcome = "success"
         /\ messages = <<>> => exit_code = 0
    ELSE exit_code = None

\* The process has exited with code 1 after one task succeeded and one failed.
C19_Witness ==
    /\ pc = "exited"
    /\ exit_code = 1
    /\ result.processed = 1
    /\ result.errors = 1

\* The source (case-insensitively) contains one of the tags.
HasTag(source, tags) ==
    \E i \in 1..Len(tags) : Contains(Lower(source), tags[i])

\* Number of keywords of the list, from the n-th on, that occur in the text.
RECURSIVE HitsFrom(_, _, _)
HitsFrom(keywords, text, n) ==
    IF n > Len(keywords) THEN 0
    ELSE (IF Contains(text, keywords[n]) THEN 1 ELSE 0)
         + HitsFrom(keywords, text, n + 1)

\* The reference: Personal by tag, else Business by tag, else the list with
\* the strictly higher hit count over subject and content, else Unknown.
classify_reference(source, subject, content) ==
    LET text == Lower(subject) \o <<" ">> \o Lower(content)
        p    == HitsFrom(personal_keywords, text, 1)
        b    == HitsFrom(business_keywords, text, 1)
    IN  CASE HasTag(source, PERSONAL_DOMAINS) -> "personal"
          [] ~HasTag(source, PERSONAL_DOMAINS) /\ HasTag(source, BUSINESS_DOMAINS)
               -> "business"
          [] ~HasTag(source, PERSONAL_DOMAINS) /\ ~HasTag(source, BUSINESS_DOMAINS)
             /\ p > b -> "personal"
          [] ~HasTag(source, PERSONAL_DOMAINS) /\ ~HasTag(source, BUSINESS_DOMAINS)
             /\ b > p -> "business"
          [] OTHER -> "unknown"

(***************************************************************************)
(* C20.  classify is a deterministic function of (source, subject,         *)
(* content) and equals the reference: every call on a message returns the  *)
(* reference's value for the message's three fields (missing fields read   *)
(* as empty); the Personal tag wins when the source matches both tag sets, *)
(* and a message with no source, subject and content is Unknown.           *)
(***************************************************************************)
C20_ClassifyIsReference ==
    LET message == messages[1]
        source  == Get(message, "source", <<>>)
        subject == Get(message, "subject", <<>>)
        content == Get(message, "content", <<>>)
    IN  \A i \in 1..Len(result) :
            /\ result[i] = classify_reference(source, subject, content)
            /\ result[i] = result[1]
            /\ (HasTag(source, PERSONAL_DOMAINS) /\ HasTag(source, BUSINESS_DOMAINS))
                  => result[i] = "personal"
            /\ (source = <<>> /\ subject = <<>> /\ content = <<>>)
                  => result[i] = "unknown"

\* A message whose source matches both tag sets and whose text holds
\* business keywords only was classified twice.
C20_Witness ==
    /\ pc = "done"
    /\ Len(result) = MaxClassify
    /\ HasTag(Get(messages[1], "source", <<>>), PERSONAL_DOMAINS)
    /\ HasTag(Get(messages[1], "source", <<>>), BUSINESS_DOMAINS)
    /\ Score(business_keywords, Lower(Get(messages[1], "content", <<>>))) = 2
    /\ result[1] = "personal"

\* run() found the weekly audit due when it started (it logged the trigger).
TriggeredAtStart ==
    \E i \in 1..Len(audit) :
        audit[i].entry = "EVENT" /\ audit[i].event_type = "WEEKLY_AUDIT_TRIGGER"

(***************************************************************************)
(* C21.  When the audit interval has elapsed since the last audit activity *)
(* at the start of run() and the inbox is not empty, run() has appended,   *)
(* by the time it returns, a weekly audit summary with the processed,      *)
(* errors and success-rate figures it returns.                             *)
(***************************************************************************)
C21_WeeklySummaryWritten ==
    (pc = "done" /\ TriggeredAtStart /\ messages # <<>>) =>
        \E i \in 1..Len(audit) :
            /\ audit[i].entry = "WEEKLY_SUMMARY"
            /\ audit[i].tasks_processed = result.processed
            /\ audit[i].errors = result.errors
            /\ audit[i].success_rate = result.success_rate

\* This step is the start() of the loop for the next task.
StartsNextTask ==
    /\ Len(calls') = Len(calls) + 1
    /\ ralph_loop'.task_status = "in_progress"
    /\ ralph_loop'.current_iteration = 0
    /\ ralph_loop'.task_id = calls'[Len(calls')].task_id

(***************************************************************************)
(* C22.  The loop's counter always satisfies 0 <= current_iteration <=     *)
(* max_iterations; once the status is complete or failed it changes only   *)
(* by the start() for the next task; and the status never returns to       *)
(* pending.                                                                *)
(***************************************************************************)
C22_LoopStatusMonotonic ==
    /\ [](/\ 0 <= ralph_loop.current_iteration
          /\ ralph_loop.current_iteration <= ralph_loop.max_iterations)
    /\ [][ /\ ( /\ ralph_loop.task_status \in {"complete", "failed"}
                /\ ralph_loop' # ralph_loop ) => StartsNextTask
           /\ ralph_loop'.task_status = "pending" =>
                 ralph_loop.task_status = "pending" ]_vars

\* The first task exhausted the loop at its ceiling, and start() has put the
\* loop to work on the second, whose handler is running.
C22_Witness ==
    /\ Len(calls) = 2
    /\ calls[1].outcome = "exhausted"
    /\ calls[1].loop1.task_status = "failed"
    /\ calls[1].loop1.current_iteration = calls[1].loop1.max_iterations
    /\ pc = "attempt"
    /\ ralph_loop.task_status = "in_progress"
    /\ ralph_loop.current_iteration = 1

\* The step is a call of next_iteration() by process_message, and it does
\* what C23 says: the counter grows by 1; the call returns False exactly
\* when the new counter has reached max_iterations, and then the status is
\* failed and the entry written first is the terminal event; otherwise the
\* status is unchanged, the one entry written is the iteration-start event,
\* and run_script is entered.
\* What one call of next_iteration does to the counter and the status, and
\* what it returns (process_message enters the loop body, and so calls
\* run_script, exactly when it returns True).
NextIterationReturns ==
    LET n == ralph_loop.current_iteration + 1
    IN  /\ ralph_loop'.current_iteration = n
        /\ IF n >= ralph_loop.max_iterations
           THEN /\ pc' # "attempt"
                /\ Len(run_scripts') = Len(run_scripts)
                /\ ralph_loop'.task_status = "failed"
           ELSE /\ pc' = "attempt"
                /\ Len(run_scripts') = Len(run_scripts) + 1
                /\ ralph_loop'.task_status = ralph_loop.task_status

\* The call's audit entry: the first entry written is the terminal event or
\* the iteration-start event, with the new counter.
NextIterationLogs ==
    LET n     == ralph_loop.current_iteration + 1
        first == audit'[Len(audit) + 1]
    IN  /\ Len(audit') > Len(audit)
        /\ first.entry = "EVENT"
        /\ first.details.Task = ralph_loop.task_id
        /\ IF n >= ralph_loop.max_iterations
           THEN /\ first.event_type = "RALPH_WIGGUM_MAX"
                /\ first.details.Iterations = n
           ELSE /\ first.event_type = "RALPH_WIGGUM_ITERATION"
                /\ first.details.Iteration = n
                /\ Len(audit') = Len(audit) + 1

\* The call writes no loop event.
NextIterationSilent ==
    \A i \in (Len(audit) + 1)..Len(audit') : audit'[i].entry # "EVENT"

C24_NeverRaises ==
    /\ pc # "raised"
    /\ pc = "done" =>
          LET n    == Len(launches)
              last == launches[n].outcome
          IN  /\ n >= 1
              /\ rs_ret.success <=> \E i \in 1..n : launches[i].outcome = "ok"
              /\ rs_ret.success => last = "ok" /\ rs_ret.retries = n - 1
              /\ ~rs_ret.success =>
                    /\ n = MAX_RETRIES
                    /\ rs_ret.retries = MAX_RETRIES
                    /\ last = "exit" => rs_ret.output = "Script exited with code 1"
                    /\ last = "timeout" => rs_ret.output = "Script timed out"
                    /\ last = "exception" => rs_ret.output = "str(e)"

\* run_script has returned failure after a non-zero exit, a timeout and, last,
\* an exception raised by subprocess.run.
C24_Witness ==
    /\ pc = "done"
    /\ Len(launches) = MAX_RETRIES
    /\ launches[1].outcome = "exit"
    /\ launches[2].outcome = "timeout"
    /\ launches[3].outcome = "exception"
    /\ rs_ret = [success |-> FALSE, output |-> "str(e)", retries |-> MAX_RETRIES]

(***************************************************************************)
(* C25.  is_sensitive(action) is true if and only if the lower-cased label *)
(* contains, as a substring, an entry of the sensitive vocabulary: so      *)
(* social_post and linkedin_login are sensitive.  With auto-confirm off,   *)
(* confirm() prompts the operator exactly for the labels for which         *)
(* is_sensitive is true.                                                   *)
(***************************************************************************)
\* The labels of ActionLabels that, read by hand, hold a vocabulary entry in
\* some letter case: batch_post [batch_post, post], social_post [social,
\* post], linkedin_login [linkedin, login], LOGIN [login], POST [post],
\* Delete_Account [delete], financial_report [financial], account_change
\* [account_change], Facebook_Share [facebook], instagram_story [instagram],
\* twitter_dm [twitter].
HoldsVocabulary ==
    {"batch_post", "social_post", "linkedin_login", "LOGIN", "POST",
     "Delete_Account", "financial_report", "account_change", "Facebook_Share",
     "instagram_story", "twitter_dm"}

C25_SensitiveIsSubstringMatch ==
    /\ \A i \in 1..Len(result) :
          result[i].sensitive <=> result[i].action \in HoldsVocabulary
    /\ \A i \in 1..Len(confirms) :
          /\ ~AUTO_CONFIRM =>
                (confirms[i].prompted <=> result[i].sensitive)
          /\ AUTO_CONFIRM => ~confirms[i].prompted
          /\ ~confirms[i].prompted => confirms[i].confirmed

\* With auto-confirm off, confirm has prompted for social_post and has not
\* prompted for read_inbox.
C25_Witness ==
    /\ ~AUTO_CONFIRM
    /\ Len(confirms) = 2
    /\ confirms[1].action = "social_post" /\ confirms[1].prompted
    /\ result[1].sensitive
    /\ confirms[2].action = "read_inbox" /\ ~confirms[2].prompted
    /\ ~result[2].sensitive

(***************************************************************************)
(* C26.  The metrics run() returns count only the tasks handled in that    *)
(* invocation: run() called again on the same orchestrator carries no      *)
(* processed or errors count over from the earlier invocation.             *)
(***************************************************************************)
\* The process_message calls made by the run() invocation in progress.
CallsOfThisRun ==
    LET before == IF invocations = <<>> THEN 0
                  ELSE invocations[Len(invocations)].calls
    IN  (before + 1)..Len(calls)

C26_MetricsPerInvocation ==
    pc = "done" =>
        /\ result.processed =
              Cardinality({k \in CallsOfThisRun : calls[k].outcome = "success"})
        /\ result.errors =
              Cardinality({k \in CallsOfThisRun : calls[k].outcome # "success"})

(***************************************************************************)
(* C27.  Task ids are unique within a run: two different inbox messages    *)
(* processed in the same run() never get the same task id, including the   *)
(* messages that carry no 'id' field and get the generated id              *)
(* task_<tasks_processed>.                                                 *)
(***************************************************************************)
\* The k-th process_message call was given a message without an 'id' field.
GeneratedId(k) == "id" \notin DOMAIN inbox.files[calls[k].file].json

C27_TaskIdsUnique ==
    \A k, l \in 1..Len(calls) :
        (k < l /\ (GeneratedId(k) \/ GeneratedId(l))) =>
            calls[k].task_id # calls[l].task_id

(***************************************************************************)
(* C28.  get_script_for_message returns a handler from the mapping of the  *)
(* classified domain: for Personal the first personal platform whose key   *)
(* occurs in the source, else the WhatsApp default; for Business the first *)
(* business platform whose key occurs in the source, else the LinkedIn     *)
(* default; it returns no handler if and only if the domain is Unknown.    *)
(***************************************************************************)
\* The platform expected for each source, worked out by hand from the two
\* mappings in their order (gmail, whatsapp; linkedin, facebook, instagram,
\* twitter, x), letter case ignored.
ExpectedPlatform(source) ==
    CASE source = <<>> ->
             [personal |-> "whatsapp", business |-> "linkedin"]
      [] source = <<"g","m","a","i","l">> ->
             [personal |-> "gmail", business |-> "linkedin"]
      [] source = <<"G","m","a","i","l">> ->
             [personal |-> "gmail", business |-> "linkedin"]
      [] source = <<"W","h","a","t","s","A","p","p">> ->
             [personal |-> "whatsapp", business |-> "linkedin"]
      [] source = <<"w","h","a","t","s","a","p","p"," ","g","m","a","i","l">> ->
             [personal |-> "gmail", business |-> "linkedin"]
      [] source = <<"s","m","s">> ->
             [personal |-> "whatsapp", business |-> "linkedin"]
      [] source = <<"L","i","n","k","e","d","I","n">> ->
             [personal |-> "whatsapp", business |-> "linkedin"]
      [] source = <<"f","a","c","e","b","o","o","k">> ->
             [personal |-> "whatsapp", business |-> "facebook"]
      [] source = <<"I","n","s","t","a","g","r","a","m">> ->
             [personal |-> "whatsapp", business |-> "instagram"]
      [] source = <<"t","w","i","t","t","e","r">> ->
             [personal |-> "whatsapp", business |-> "twitter"]
      [] source = <<"x">> ->
             [personal |-> "whatsapp", business |-> "twitter"]
      [] source = <<"f","a","x">> ->
             [personal |-> "whatsapp", business |-> "twitter"]
      [] source = <<"t","w","i","t","t","e","r"," ","l","i","n","k","e","d","i","n">> ->
             [personal |-> "whatsapp", business |-> "linkedin"]
      [] source = <<"i","n","s","t","a","g","r","a","m"," ","f","a","c","e","b","o","o","k">> ->
             [personal |-> "whatsapp", business |-> "facebook"]
      [] source = <<"u","n","k","n","o","w","n","_","p","l","a","t","f","o","r","m">> ->
             [personal |-> "whatsapp", business |-> "linkedin"]

\* The handler file of a platform, relative to the base directory.
WatcherOf(platform) ==
    CASE platform = "gmail" ->
             <<"W","a","t","c","h","e","r","s","/","g","m","a","i","l","_","w","a","t","c","h","e","r",".","p","y">>
      [] platform = "whatsapp" ->
             <<"W","h","a","t","s","A","p","p","/","w","h","a","t","s","a","p","p","_","w","a","t","c","h","e","r",".","p","y">>
      [] platform = "linkedin" ->
             <<"L","i","n","k","e","d","I","n","/","l","i","n","k","e","d","i","n","_","w","a","t","c","h","e","r",".","p","y">>
      [] platform = "facebook" ->
             <<"W","a","t","c","h","e","r","s","/","f","a","c","e","b","o","o","k","_","w","a","t","c","h","e","r",".","p","y">>
      [] platform = "instagram" ->
             <<"W","a","t","c","h","e","r","s","/","i","n","s","t","a","g","r","a","m","_","w","a","t","c","h","e","r",".","p","y">>
      [] platform = "twitter" ->
             <<"W","a","t","c","h","e","r","s","/","t","w","i","t","t","e","r","_","w","a","t","c","h","e","r",".","p","y">>

C28_HandlerOfDomain ==
    \A i \in 1..Len(result) :
        LET message  == messages[index]
            source   == IF "source" \in DOMAIN message THEN message.source
                        ELSE <<>>
            msg_type == frame.msg_type
            expected == ExpectedPlatform(source)
        IN  /\ msg_type = "personal" =>
                  result[i] = PathJoin(BASE_DIR, WatcherOf(expected.personal))
            /\ msg_type = "business" =>
                  result[i] = PathJoin(BASE_DIR, WatcherOf(expected.business))
            /\ result[i] = NoneStr <=> msg_type = "unknown"

\* A personal message from "sms" got the WhatsApp default, or a business
\* message naming twitter and linkedin got the LinkedIn handler.
C28_Witness ==
    /\ pc = "done"
    /\ Len(result) = 1
    /\ BASE_DIR = <<".">>
    /\ \/ /\ messages[1] = [source |-> <<"s","m","s">>]
          /\ frame.msg_type = "personal"
          /\ result[1] = WatcherOf("whatsapp")
       \/ /\ messages[1] = [source |-> <<"t","w","i","t","t","e","r"," ","l","i","n","k","e","d","i","n">>]
          /\ frame.msg_type = "business"
          /\ result[1] = WatcherOf("linkedin")

(***************************************************************************)
(* The audit entries of one task, read as a sentence.                      *)
(***************************************************************************)
\* The audit entries written during the k-th process_message call, in order.
TaskEntries(k) == SubSeq(audit, calls[k].audit0 + 1, calls[k].audit1)

\* What an audit entry is: its event type, SUCCESS or FAILED task entry, or
\* its entry type.
Kind(e) ==
    IF e.entry = "EVENT" THEN e.event_type
    ELSE IF e.entry = "TASK"
    THEN (IF e.status = "SUCCESS" THEN "TASK_SUCCESS" ELSE "TASK_FAILED")
    ELSE e.entry

\* Entry e may come right after entry p in the entries of one task.  Error
\* entries count the attempts of their iteration from 1; an iteration that
\* used up its attempts is followed by the next iteration or by the terminal
\* event, one that did not by the completion.
MayFollow(p, e) ==
    LET after(kind) == Kind(p) = kind
        exhausted   == Kind(p) = "ERROR" /\ p.attempt = MAX_RETRIES
    IN  CASE Kind(e) = "RALPH_WIGGUM_START" -> after("MESSAGE_CLASSIFIED")
          [] Kind(e) = "RALPH_WIGGUM_ITERATION" ->
                 after("RALPH_WIGGUM_START") \/ exhausted
          [] Kind(e) = "ERROR" ->
                 \/ after("RALPH_WIGGUM_ITERATION") /\ e.attempt = 1
                 \/ after("ERROR") /\ e.attempt = p.attempt + 1
          [] Kind(e) = "RALPH_WIGGUM_COMPLETE" ->
                 \/ after("RALPH_WIGGUM_ITERATION")
                 \/ after("ERROR") /\ p.attempt < MAX_RETRIES
          [] Kind(e) = "TASK_SUCCESS" -> after("RALPH_WIGGUM_COMPLETE")
          [] Kind(e) = "RALPH_WIGGUM_MAX" -> exhausted
          [] Kind(e) = "RALPH_WIGGUM_FAIL" -> after("RALPH_WIGGUM_MAX")
          [] Kind(e) = "TASK_FAILED" -> after("RALPH_WIGGUM_FAIL")
          [] OTHER -> FALSE

\* The entries of the k-th call are: MESSAGE_CLASSIFIED, RALPH_WIGGUM_START,
\* per outer iteration a RALPH_WIGGUM_ITERATION entry (numbered from 1, one
\* per run_script call) and its error entries, then RALPH_WIGGUM_COMPLETE and
\* the SUCCESS task entry, or RALPH_WIGGUM_MAX, RALPH_WIGGUM_FAIL and the
\* FAILED task entry; all of them name the call's task.
InStatedOrder(k) ==
    LET seg         == TaskEntries(k)
        IsIteration(e) == Kind(e) = "RALPH_WIGGUM_ITERATION"
        iterations  == SelectSeq(seg, IsIteration)
    IN  /\ Len(seg) >= 2
        /\ Kind(seg[1]) = "MESSAGE_CLASSIFIED"
        /\ \A i \in 2..Len(seg) : MayFollow(seg[i - 1], seg[i])
        /\ Kind(seg[Len(seg)]) =
              (IF calls[k].outcome = "success" THEN "TASK_SUCCESS"
               ELSE "TASK_FAILED")
        /\ Len(iterations) = RunScriptsOf(k)
        /\ \A i \in 1..Len(iterations) : iterations[i].details.Iteration = i
        /\ \A i \in 1..Len(seg) : Names(seg[i], calls[k].task_id)

\* The k-th process_message call had a handler and has returned.
HandlerResolved(k) == calls[k].outcome \in {"success", "exhausted"}

C30_ExhaustedCountIsRuns ==
    \A k \in 1..Len(calls) :
        calls[k].outcome = "exhausted" =>
            LET last == audit[calls[k].audit1]
            IN  /\ last.entry = "TASK"
                /\ last.status = "FAILED"
                /\ last.details.exhausted_after_iterations = RunScriptsOf(k)

(***************************************************************************)
(* C31.  Once a handler-error audit entry for a task states the action     *)
(* 'Skipping gracefully' (its attempt number is the ceiling), no further   *)
(* handler attempt is made for that task.                                  *)
(***************************************************************************)
\* The process_message call in progress has written an error entry that
\* announces the graceful skip.
SkipAnnounced ==
    /\ Len(calls) > 0
    /\ calls[Len(calls)].outcome = "running"
    /\ \E i \in (calls[Len(calls)].audit0 + 1)..Len(audit) :
          /\ audit[i].entry = "ERROR"
          /\ audit[i].action = "Skipping gracefully"

C31_NoAttemptAfterSkip ==
    [][SkipAnnounced => Len(launches') = Len(launches)]_vars

(***************************************************************************)
(* C32.  The handler processes started for one task never number more than *)
(* MAX_RETRIES * max_iterations, and the retry count in a SUCCESS task     *)
(* entry is the number of failed attempts inside the successful run_script *)
(* call only (0 when its first attempt succeeds), not the failures of the  *)
(* earlier outer iterations.                                               *)
(***************************************************************************)
\* The SUCCESS task entry of the k-th call: the last entry it wrote.
SuccessEntry(k) == audit[calls[k].audit1]

\* The failed handler runs of the k-th call that fell into its last
\* run_script call: every earlier run_script call used up MAX_RETRIES.
FailuresInLastRunScript(k) ==
    (LaunchesOf(k) - 1) - MAX_RETRIES * (RunScriptsOf(k) - 1)

C32_RetriesOfLastCallOnly ==
    \A k \in 1..Len(calls) :
        /\ LaunchesOf(k) <= MAX_RETRIES * RALPH_WIGGUM_MAX_ITERATIONS
        /\ calls[k].outcome = "success" =>
              /\ SuccessEntry(k).entry = "TASK"
              /\ SuccessEntry(k).status = "SUCCESS"
              /\ SuccessEntry(k).details.Retries = FailuresInLastRunScript(k)
              /\ SuccessEntry(k).details.Retries \in 0..(MAX_RETRIES - 1)
              /\ launches[CHOOSE i \in 1..Len(launches) :
                              launches[i].call = k /\ launches[i].outcome = "ok"
                         ].attempt = SuccessEntry(k).details.Retries + 1

\* A task succeeded at the first attempt of its second outer iteration, after
\* three failed handler runs: its SUCCESS entry reports 0 retries.
C32_Witness ==
    /\ Len(calls) >= 1
    /\ calls[1].outcome = "success"
    /\ RunScriptsOf(1) = 2
    /\ LaunchesOf(1) = MAX_RETRIES + 1
    /\ SuccessEntry(1).details.Retries = 0

(***************************************************************************)
(* C33.  With an empty (or missing) inbox, run() returns processed = 0,    *)
(* errors = 0, success_rate = 100.0 without calling process_message,       *)
(* without invoking any handler and without writing a weekly summary.      *)
(***************************************************************************)
\* The Inbox directory is missing or holds no file.
InboxEmptyOrMissing == ~inbox.exists \/ inbox.files = <<>>

C33_EmptyInbox ==
    (InboxEmptyOrMissing /\ pc \in {"done", "exited"}) =>
        /\ result.processed = 0
        /\ result.errors = 0
        /\ result.success_rate = [num |-> 100, den |-> 1]
        /\ calls = <<>>
        /\ run_scripts = <<>>
        /\ launches = <<>>
        /\ \A i \in 1..Len(audit) : audit[i].entry # "WEEKLY_SUMMARY"

\* run() has returned for a missing Inbox directory, an audit interval after
\* the audit file was last written: the trigger is logged, nothing else.
C33_Witness ==
    /\ pc = "done"
    /\ ~inbox.exists
    /\ now = WEEKLY_AUDIT_INTERVAL
    /\ result.success_rate = [num |-> 100, den |-> 1]
    /\ audit[Len(audit)].event_type = "WEEKLY_AUDIT_TRIGGER"

(***************************************************************************)
(* C34.  Inbox watcher: every new Markdown file that ends up non-empty in  *)
(* the Inbox triggers the reasoning workflow, for any order and timing of  *)
(* its created and modified events (also a file created empty and written *)
(* afterwards): once the file is settled and every event delivered, the    *)
(* workflow has been triggered.  A repeated event for the same unchanged   *)
(* content within 5 seconds does not trigger it a second time.             *)
(***************************************************************************)
C34_NonEmptyFileTriggers ==
    /\ ( /\ inbox_handler.settled
         /\ inbox_handler.queue = <<>>
         /\ inbox_handler.content # 0 ) => inbox_handler.triggers # <<>>
    /\ \A i, j \in 1..Len(inbox_handler.triggers) :
          ( /\ i < j
            /\ inbox_handler.triggers[i].hash = inbox_handler.triggers[j].hash )
              => inbox_handler.triggers[j].time
                     - inbox_handler.triggers[i].time >= 5

(***************************************************************************)
(* C35.  Watcher retry loop: run_watcher_with_retry always terminates.     *)
(* For a check function that always fails (raises or returns None) it      *)
(* calls the check exactly max_retries + 1 times, sleeping RETRY_DELAY *   *)
(* 2^(r-1) before retry r, and then returns the empty list; it returns the *)
(* check's result at the first call that yields a non-None value; the      *)
(* retry counter is reset at the start of each call.                       *)
(***************************************************************************)
\* The record c of a run_watcher_with_retry call is as the claim has it.
WatcherCallAsStated(c) ==
    LET n      == Len(c.checks)
        failed == {i \in 1..n : c.checks[i] # "items"}
    IN  /\ n <= WATCHER_MAX_RETRIES + 1
        \* only the last check can have given a list
        /\ \A i \in 1..n : c.checks[i] = "items" => i = n
        \* one sleep before each retry, doubling from RETRY_DELAY
        /\ Len(c.sleeps) = IF Cardinality(failed) > WATCHER_MAX_RETRIES
                           THEN WATCHER_MAX_RETRIES ELSE Cardinality(failed)
        /\ \A r \in 1..Len(c.sleeps) :
              c.sleeps[r] = IF r = 1 THEN WATCHER_RETRY_DELAY
                            ELSE 2 * c.sleeps[r - 1]
        /\ c.returned = "items" <=> (n >= 1 /\ c.checks[n] = "items")
        /\ c.returned = "[]" <=>
              (n = WATCHER_MAX_RETRIES + 1 /\ Cardinality(failed) = n)

C35_WatcherRetry ==
    /\ [](\A k \in 1..Len(watcher_loop.calls) :
              WatcherCallAsStated(watcher_loop.calls[k]))
    /\ [](watcher_loop.pc = "main" =>
              \A k \in 1..Len(watcher_loop.calls) :
                  watcher_loop.calls[k].returned # "nothing yet")
    /\ (watcher_loop.pc = "while") ~> (watcher_loop.pc = "main")

\* A second call, entered with the counter at max_retries from the first, has
\* made four failing checks, slept 2, 4 and 8 seconds and returned [].
C35_Witness ==
    /\ watcher_loop.pc = "main"
    /\ Len(watcher_loop.calls) = 2
    /\ watcher_loop.calls[2].entered_with = WATCHER_MAX_RETRIES
    /\ watcher_loop.calls[2].checks = << "raises", "none", "raises", "none" >>
    /\ watcher_loop.calls[2].sleeps = << 2, 4, 8 >>
    /\ watcher_loop.calls[2].returned = "[]"

(***************************************************************************)
(* C36.  Weekly audit analysis loop: analyze_with_ralph_loop terminates    *)
(* (it makes no more than max_iterations analysis attempts), leaves the    *)
(* loop in a terminal status (complete or failed) when it returns, and     *)
(* when categorization fails on every attempt it makes exactly             *)
(* max_iterations analysis attempts before failing.                        *)
(***************************************************************************)
C36_AnalysisLoop ==
    /\ Len(analysis.attempts) <= analysis.ralph_loop.max_iterations
    /\ analysis.pc = "returned" =>
          /\ analysis.ralph_loop.status \in {"complete", "failed"}
          /\ analysis.ralph_loop.status = "failed" =>
                Len(analysis.attempts) = analysis.ralph_loop.max_iterations

====
